---- MODULE Spec2Model ----
(***************************************************************************)
(* Reserved-word segmentation and rule-layered classification of asset     *)
(* names (EnhancedClassifierV3 / ReservedWordProcessor, UltimateClassifier,*)
(* SimpleReservedWordDemo) together with the process-wide jieba tokenizer  *)
(* they all register their lexicons into.                                  *)
(*                                                                         *)
(* A text is a sequence of chunks.  A chunk is a run of characters that no *)
(* lexicon phrase, keyword or pattern of the tables below cuts in two, so  *)
(* substring tests on chunk sequences agree with the tests on characters:  *)
(*   "fanghuo" = 防火 (2 chars)   "qiang"   = 牆 (1 char)                  *)
(*   "shebei"  = 設備 (2)         "zuoye"   = 作業 (2)                     *)
(*   "wenjian" = 文件 (2)         "renyuan" = 人員 (2)      " " = a space  *)
(* Longer inputs (LongInputs) also use one chunk per further keyword:      *)
(* "mysql" = MySQL (5), "server", "unix", "java", "python", "dotnet" =     *)
(* .net, "asp", and 軟體 程式 語言 平台 框架 開發 硬體 主機 電腦 交換器    *)
(* 路由器 機器 終端 裝置 under their pinyin.                               *)
(* 作業系統, "zuoye" "xitong", is classified too; segmentation also gets   *)
(* 作業系統管理員, "zuoye" "xitong" "guanliyuan" (系統 2, 管理員 3), in      *)
(* which two phrases of a lexicon overlap, and 文件的, "wenjian" "de"       *)
(* (的 1).  The embedding systems' preprocess_text also gets "bang" = ！   *)
(* (1, a character its cleaning removes) and "a" = A (1).                  *)
(* Inputs hold no parentheses, so the bracket variants of preprocess_text  *)
(* are the cleaned text / empty; Latin chunks other than "mysql" are lower *)
(* case already, so lower() changes no containment test but those on       *)
(* "mysql", which the keyword kinds below account for.                     *)
(***************************************************************************)
EXTENDS Naturals, Integers, Sequences, FiniteSets, TLC

VARIABLES jieba, inst, last, repeat, sklearn, trainer, embed, config

vars == <<jieba, inst, last, repeat, sklearn, trainer, embed, config>>

\* ------------------------------------------------------------------ bounds
MaxLen == 3
MaxInst == 2
\* calls that load or train, per object
MaxAttempts == 3

\* ------------------------------------------------------------------ text
SP == " "
Alphabet == {"fanghuo", "qiang", "shebei", "zuoye", "wenjian", "renyuan", SP}

\* Number of characters of a chunk.
Width(c) ==
    CASE c \in {"qiang", "de", "bang", "a", SP} -> 1
      [] c \in {"jiaohuanqi", "luyouqi", "asp", "guanliyuan"} -> 3
      [] c \in {"unix", "java", "dotnet"} -> 4
      [] c = "mysql" -> 5
      [] c \in {"server", "python"} -> 6
      [] OTHER -> 2

Texts == UNION {[1..n -> Alphabet] : n \in 0..MaxLen}

RECURSIVE PyLen(_)
\* len(s) of a Python str: the number of characters.
PyLen(s) == IF s = <<>> THEN 0 ELSE Width(Head(s)) + PyLen(Tail(s))

\* s[i:i+len(sub)] == sub
MatchAt(s, sub, i) ==
    /\ i + Len(sub) - 1 <= Len(s)
    /\ \A k \in 1..Len(sub) : s[i + k - 1] = sub[k]

\* `sub in s`
Contains(s, sub) == \E i \in 1..(Len(s) + 1) : MatchAt(s, sub, i)

\* s.endswith(sub), for the patterns r'.*X$'
EndsWith(s, sub) == Len(sub) <= Len(s) /\ MatchAt(s, sub, Len(s) - Len(sub) + 1)

RECURSIVE Replace(_, _, _)
\* s.replace(old, new): every non-overlapping occurrence, left to right
\* (old is never empty here).
Replace(s, old, new) ==
    IF s = <<>> THEN <<>>
    ELSE IF MatchAt(s, old, 1)
         THEN new \o Replace(SubSeq(s, Len(old) + 1, Len(s)), old, new)
         ELSE <<Head(s)>> \o Replace(Tail(s), old, new)

RECURSIVE LStrip(_)
LStrip(s) == IF s # <<>> /\ Head(s) = SP THEN LStrip(Tail(s)) ELSE s

RECURSIVE RStrip(_)
RStrip(s) ==
    IF s # <<>> /\ s[Len(s)] = SP THEN RStrip(SubSeq(s, 1, Len(s) - 1)) ELSE s

\* s.strip()
Strip(s) == LStrip(RStrip(s))

RECURSIVE CollapseSpaces(_)
\* re.sub(r'\s+', ' ', s)
CollapseSpaces(s) ==
    IF s = <<>> THEN <<>>
    ELSE IF Head(s) = SP
         THEN <<SP>> \o CollapseSpaces(LStrip(s))
         ELSE <<Head(s)>> \o CollapseSpaces(Tail(s))

RECURSIVE Join(_)
\* ' '.join(tokens), each token a chunk sequence
Join(tokens) ==
    IF tokens = <<>> THEN <<>>
    ELSE IF Len(tokens) = 1 THEN tokens[1]
         ELSE tokens[1] \o <<SP>> \o Join(Tail(tokens))

RECURSIVE Flatten(_)
\* the characters of a token list, in order
Flatten(tokens) ==
    IF tokens = <<>> THEN <<>> ELSE Head(tokens) \o Flatten(Tail(tokens))

\* how often chunk c occurs in s
Count(s, c) == Cardinality({i \in 1..Len(s) : s[i] = c})

IsMember(x, seq) == \E i \in 1..Len(seq) : seq[i] = x

\* ------------------------------------------------------------------ lexicons
\* Phrases, as chunk sequences.
FangHuoQiang == <<"fanghuo", "qiang">>                \* 防火牆
FangHuoQiangSheBei == <<"fanghuo", "qiang", "shebei">> \* 防火牆設備
ZuoYeWenJian == <<"zuoye", "wenjian">>                \* 作業文件
SheBei == <<"shebei">>                                \* 設備
ZuoYe == <<"zuoye">>                                  \* 作業
WenJian == <<"wenjian">>                              \* 文件
RenYuan == <<"renyuan">>                              \* 人員
MySQL == <<"mysql">>                                  \* MySQL
ZuoYeXiTong == <<"zuoye", "xitong">>                  \* 作業系統
XiTongGuanLiYuan == <<"xitong", "guanliyuan">>        \* 系統管理員
XiTong == <<"xitong">>                                \* 系統
GuanLiYuan == <<"guanliyuan">>                        \* 管理員

\* The keys of ReservedWordProcessor.reserved_words that the alphabet can
\* spell, in the dict's insertion order.
V3ReservedWords ==
    <<FangHuoQiang, ZuoYeXiTong, GuanLiYuan, ZuoYeWenJian, FangHuoQiangSheBei, MySQL>>

\* The keys of UltimateClassifier.reserved_words that the alphabet can spell,
\* in insertion order, and the decomposition each maps to.
UltimateReservedWords ==
    <<FangHuoQiangSheBei, XiTongGuanLiYuan, ZuoYeWenJian, ZuoYeXiTong, MySQL>>

UltimateDecomposition(phrase) ==
    IF phrase = FangHuoQiangSheBei THEN <<FangHuoQiang, SheBei>>
    ELSE IF phrase = ZuoYeWenJian THEN <<ZuoYe, WenJian>>
    ELSE IF phrase = XiTongGuanLiYuan THEN <<XiTong, GuanLiYuan>>
    ELSE <<phrase>>

\* SimpleReservedWordDemo.reserved_words (a list).
DemoReservedWords ==
    <<FangHuoQiang, FangHuoQiangSheBei, ZuoYeXiTong, ZuoYeWenJian, MySQL>>

SeqToSet(seq) == {seq[i] : i \in 1..Len(seq)}

RECURSIVE InsertByLen(_, _)
\* insert p behind every element at least as long (the sort is stable)
InsertByLen(sorted, p) ==
    IF sorted = <<>> THEN <<p>>
    ELSE IF PyLen(Head(sorted)) >= PyLen(p)
         THEN <<Head(sorted)>> \o InsertByLen(Tail(sorted), p)
         ELSE <<p>> \o sorted

RECURSIVE SortedReserved(_)
\* the phrases in the order of the lexicon
UnsortedReserved(lexicon) == lexicon

\* sorted(self.reserved_words.keys(), key=len, reverse=True)
SortedReserved(lexicon) ==
    IF lexicon = <<>> THEN <<>>
    ELSE InsertByLen(SortedReserved(SubSeq(lexicon, 1, Len(lexicon) - 1)),
                     lexicon[Len(lexicon)])

\* ------------------------------------------------------------------ jieba
\* The process-wide tokenizer: whether its dictionary is loaded, and the words
\* add_word has registered into it.
JiebaFresh == [initialized |-> FALSE, user_words |-> {}]

\* jieba.add_word(w, freq=10000) for every w of a lexicon; add_word loads the
\* dictionary first.
JiebaAddWords(j, lexicon) ==
    [initialized |-> TRUE, user_words |-> j.user_words \cup SeqToSet(lexicon)]

RECURSIVE JiebaCut(_, _)
\* list(jieba.cut(s)) with the registered words `words`: a registered word is
\* kept whole (the longest one at a position), everything else falls apart
\* into the words of the stock dictionary, which are the chunks:
\* 防火牆設備 -> 防火 / 牆 / 設備 without registration.
JiebaCut(words, s) ==
    IF s = <<>> THEN <<>>
    ELSE LET cands == {w \in words : w # <<>> /\ MatchAt(s, w, 1)}
         IN IF cands = {}
            THEN <<<<Head(s)>>>> \o JiebaCut(words, Tail(s))
            ELSE LET w == CHOOSE x \in cands : \A y \in cands : Len(y) <= Len(x)
                 IN <<w>> \o JiebaCut(words, SubSeq(s, Len(w) + 1, Len(s)))

\* ------------------------------------------------------------------ ReservedWordProcessor
Placeholders ==
    {"[RESERVED_1]", "[RESERVED_2]", "[RESERVED_3]", "[RESERVED_4]", "[RESERVED]"}

\* f' [RESERVED_{n}] '
PlaceholderV3(n) ==
    <<SP, <<"[RESERVED_1]", "[RESERVED_2]", "[RESERVED_3]", "[RESERVED_4]">>[n], SP>>

StripPlaceholdersKeeps(s) == s

\* re.sub(r'\[RESERVED_\d+\]', '', s) and re.sub(r'\[RESERVED\]', '', s)
StripPlaceholders(s) == SelectSeq(s, LAMBDA c : c \notin Placeholders)

\* every phrase of the lexicon reported, found in the text or not
ExtractLoopAll(sorted, text, found, remaining) ==
    [found_reserved |-> sorted, remaining_text |-> remaining]

RECURSIVE ExtractLoop(_, _, _, _)
\* the for loop of extract_reserved_words over the sorted phrases
ExtractLoop(sorted, text, found, remaining) ==
    IF sorted = <<>> THEN [found_reserved |-> found, remaining_text |-> remaining]
    ELSE LET phrase == Head(sorted)
         IN IF Contains(text, phrase)
            THEN ExtractLoop(Tail(sorted), text, Append(found, phrase),
                     Replace(remaining, phrase, PlaceholderV3(Len(found) + 1)))
            ELSE ExtractLoop(Tail(sorted), text, found, remaining)

extract_reserved_words(lexicon, text) ==
    LET result(r) ==
            [found_reserved |-> r.found_reserved,
             remaining_text |-> Strip(r.remaining_text),
             original_text |-> text]
    IN result(ExtractLoop(SortedReserved(lexicon), text, <<>>, text))

process_with_reserved_words(lexicon, words, text) ==
    LET cut(remaining_text, clean_remaining) ==
            IF remaining_text # <<>> /\ Strip(clean_remaining) # <<>>
            THEN SelectSeq(JiebaCut(words, Strip(clean_remaining)),
                           LAMBDA w : PyLen(Strip(w)) > 0)
            ELSE <<>>
        result(found_reserved, remaining_words) ==
            [reserved_words |-> found_reserved,
             regular_words |-> remaining_words,
             all_tokens |-> found_reserved \o remaining_words,
             original_text |-> text]
        process(reserved_result) ==
            result(reserved_result.found_reserved,
                   cut(reserved_result.remaining_text,
                       StripPlaceholders(reserved_result.remaining_text)))
    IN process(extract_reserved_words(lexicon, text))

\* ------------------------------------------------------------------ UltimateClassifier segmentation
RECURSIVE UltimateExtractLoop(_, _, _, _)
UltimateExtractLoop(sorted, text, found, remaining) ==
    IF sorted = <<>> THEN [found_reserved |-> found, remaining_text |-> remaining]
    ELSE LET phrase == Head(sorted)
         IN IF Contains(text, phrase)
            THEN UltimateExtractLoop(Tail(sorted), text, Append(found, phrase),
                     Replace(remaining, phrase, <<SP, "[RESERVED]", SP>>))
            ELSE UltimateExtractLoop(Tail(sorted), text, found, remaining)

RECURSIVE ExpandTokens(_)
ExpandTokens(found) ==
    IF found = <<>> THEN <<>>
    ELSE UltimateDecomposition(Head(found)) \o ExpandTokens(Tail(found))

process_text_with_reserved_words(lexicon, words, text) ==
    LET cut(clean_remaining) ==
            IF clean_remaining # <<>>
            THEN SelectSeq(JiebaCut(words, clean_remaining),
                           LAMBDA w : PyLen(Strip(w)) > 1)
            ELSE <<>>
        result(found_reserved, remaining_words, expanded_tokens) ==
            [original |-> text,
             reserved_words |-> found_reserved,
             remaining_words |-> remaining_words,
             expanded_tokens |-> expanded_tokens,
             all_tokens |-> expanded_tokens \o remaining_words,
             processed_text |-> Join(expanded_tokens \o remaining_words)]
        process(r) ==
            result(r.found_reserved,
                   cut(Strip(StripPlaceholders(r.remaining_text))),
                   ExpandTokens(r.found_reserved))
    IN process(UltimateExtractLoop(SortedReserved(lexicon), text, <<>>, text))

\* ------------------------------------------------------------------ scores
\* A score is a float of the program; the model keeps it as an exact fraction
\* in lowest terms, [n |-> numerator, d |-> denominator > 0].
RECURSIVE GCD(_, _)
GCD(a, b) == IF b = 0 THEN a ELSE GCD(b, a % b)

Abs(x) == IF x < 0 THEN -x ELSE x

Rat(n, d) == LET g == GCD(Abs(n), d) IN [n |-> n \div g, d |-> d \div g]

Zero == Rat(0, 1)
One == Rat(1, 1)

RatAdd(x, y) ==
    LET g == GCD(x.d, y.d)
    IN Rat(x.n * (y.d \div g) + y.n * (x.d \div g), (x.d \div g) * y.d)

RatMul(x, y) ==
    LET a == Rat(x.n, y.d)
        b == Rat(y.n, x.d)
    IN [n |-> a.n * b.n, d |-> a.d * b.d]

RatNeg(x) == [n |-> -x.n, d |-> x.d]

RECURSIVE FracLess(_, _, _, _)
\* a/b < c/d for a, c >= 0 and b, d > 0, by continued fractions (no product
\* leaves the machine integers)
FracLess(a, b, c, d) ==
    LET qa == a \div b
        qc == c \div d
        ra == a % b
        rc == c % d
    IN IF qa # qc THEN qa < qc
       ELSE IF rc = 0 THEN FALSE
       ELSE IF ra = 0 THEN TRUE
       ELSE FracLess(d, rc, b, ra)

RatLess(x, y) ==
    IF x.n < 0 /\ y.n >= 0 THEN TRUE
    ELSE IF x.n >= 0 /\ y.n < 0 THEN FALSE
    ELSE IF x.n >= 0 THEN FracLess(x.n, x.d, y.n, y.d)
    ELSE FracLess(-y.n, y.d, -x.n, x.d)

RatLeq(x, y) == ~RatLess(y, x)

RatMin(x, y) == IF RatLess(y, x) THEN y ELSE x
RatMax(x, y) == IF RatLess(x, y) THEN y ELSE x

\* ------------------------------------------------------------------ EnhancedClassifierV3 tables
\* Categories: 軟體 software, 硬體 hardware, 實體 physical, 資料 data,
\* 人員 personnel, 服務 service.
Categories == {"software", "hardware", "physical", "data", "personnel", "service"}

\* A keyword of a table.  kind "whole": the keyword is the chunk sequence s.
\* kind "part": the keyword is a proper part of the one chunk of s (人 in 人員),
\* so it occurs wherever s occurs and contains nothing.  kind "lower": the
\* keyword is a lower-case part of the chunk of s (sql in MySQL): it occurs in
\* the lower-cased text wherever s occurs and never in a reserved word, which
\* is compared case-sensitively ('SQL Server' lower-cased occurs in
\* "MySQL server").
KW(s) == [s |-> s, kind |-> "whole"]
KWPart(s) == [s |-> s, kind |-> "part"]
KWLower(s) == [s |-> s, kind |-> "lower"]

\* self.category_keywords: per category and tier the keywords the chunks can
\* spell, and the number of further keywords of the tier (they occur in no
\* input of the model but count in max_possible_score).
category_keywords ==
    [software |->
        [strong |-> <<KW(XiTong), KW(<<"ruanti">>), KW(<<"chengshi">>),
                      KW(<<"yuyan">>), KW(<<"pingtai">>), KW(<<"kuangjia">>),
                      KW(MySQL), KWLower(<<"mysql", SP, "server">>)>>,
         strong_rest |-> 6,
         medium |-> <<KW(<<"server">>), KWLower(MySQL), KW(<<"unix">>),
                      KW(<<"java">>), KW(<<"python">>), KW(<<"dotnet">>),
                      KW(<<"asp">>)>>,
         medium_rest |-> 3,
         weak |-> <<KW(<<"kaifa">>)>>,
         weak_rest |-> 3],
     hardware |->
        [strong |-> <<KW(<<"yingti">>), KW(SheBei), KW(<<"zhuji">>),
                      KW(<<"diannao">>), KW(FangHuoQiangSheBei)>>,
         strong_rest |-> 5,
         medium |-> <<KW(<<"server">>), KW(<<"jiaohuanqi">>), KW(<<"luyouqi">>),
                      KW(FangHuoQiang)>>,
         medium_rest |-> 2,
         weak |-> <<KW(<<"jiqi">>), KW(<<"zhongduan">>), KW(<<"zhuangzhi">>)>>,
         weak_rest |-> 1],
     physical |->
        [strong |-> <<>>, strong_rest |-> 9,
         medium |-> <<>>, medium_rest |-> 5,
         weak |-> <<>>, weak_rest |-> 3],
     data |->
        [strong |-> <<KW(WenJian), KW(ZuoYeWenJian)>>, strong_rest |-> 9,
         medium |-> <<KW(ZuoYe)>>, medium_rest |-> 6,
         weak |-> <<>>, weak_rest |-> 4],
     personnel |->
        [strong |-> <<KW(RenYuan)>>, strong_rest |-> 8,
         medium |-> <<>>, medium_rest |-> 5,
         weak |-> <<KWPart(RenYuan)>>, weak_rest |-> 2],
     service |->
        [strong |-> <<>>, strong_rest |-> 6,
         medium |-> <<>>, medium_rest |-> 5,
         weak |-> <<KW(<<"pingtai">>)>>, weak_rest |-> 2]]

\* A regular expression of a table: r'.*X$' is kind "ends", r'.*X.*' and r'X'
\* are kind "contains"; alts are the alternatives of X the chunks can spell.
PatEnds(x) == [kind |-> "ends", alts |-> {x}]
PatContains(alts) == [kind |-> "contains", alts |-> alts]

\* self.category_patterns: the patterns the chunks can match, and the number
\* of further patterns of the category.  實體 has no entry.
category_patterns ==
    [software |-> [pats |-> <<PatEnds(XiTong), PatEnds(<<"ruanti">>),
                              PatContains({<<"chengshi">>}),
                              PatContains({<<"unix">>, MySQL})>>,
                   rest |-> 3],
     hardware |-> [pats |-> <<PatEnds(SheBei), PatEnds(<<"zhuji">>),
                              PatContains({<<"diannao">>}),
                              PatContains({<<"server">>, <<"jiaohuanqi">>, <<"luyouqi">>}),
                              PatContains({FangHuoQiangSheBei})>>,
                   rest |-> 2],
     data |-> [pats |-> <<PatContains({WenJian}), PatContains({ZuoYeWenJian})>>,
               rest |-> 5],
     personnel |-> [pats |-> <<PatEnds(RenYuan)>>, rest |-> 6],
     service |-> [pats |-> <<>>, rest |-> 6]]

\* self.exclusion_rules: per category the rule lists it has (a missing key is
\* a missing field), each cut down to the entries the chunks can spell.
exclusion_rules ==
    [personnel |-> [exclude_if_contains |-> <<WenJian, XiTong, SheBei>>,
                    exclude_reserved_words |-> <<ZuoYeWenJian>>],
     data |-> [include_reserved_words |-> <<ZuoYeWenJian>>,
               include_if_contains |-> <<WenJian, ZuoYe>>],
     software |-> [include_reserved_words |-> <<MySQL>>,
                   exclude_if_reserved_and_contains |-> <<<<FangHuoQiang, SheBei>>>>],
     hardware |-> [include_reserved_words |-> <<FangHuoQiangSheBei>>,
                   include_if_reserved_and_contains |-> <<<<FangHuoQiang, SheBei>>>>]]

\* ------------------------------------------------------------------ training data and TF-IDF
Row(name, category) == [asset_name |-> name, category |-> category]

RECURSIVE UniqueCategories(_, _)
\* self.data['資產類別'].unique(): the categories in order of first appearance
UniqueCategories(data, seen) ==
    IF data = <<>> THEN seen
    ELSE UniqueCategories(Tail(data),
            IF IsMember(Head(data).category, seen) THEN seen
            ELSE Append(seen, Head(data).category))

\* The character n-grams of TfidfVectorizer(analyzer='char_wb'), coarsened to
\* the runs of one or two chunks inside a word.
Features(text) ==
    {SubSeq(text, p[1], p[2]) :
        p \in {q \in (1..Len(text)) \X (1..Len(text)) :
                 /\ q[1] <= q[2]
                 /\ q[2] - q[1] <= 1
                 /\ \A k \in q[1]..q[2] : text[k] # SP}}

\* A fitted vectorizer is its vocabulary; None is NoVectorizer.
NoVectorizer == [built |-> FALSE, vocabulary |-> {}]

\* cosine_similarity(self.vectorizer.transform([text]), centroid), coarsened:
\* the share of common features among the features of either, 0 when the two
\* share none.  centroid is the set of features with a positive mean weight.
CosineSimilarity(vectorizer, text, centroid) ==
    LET f == Features(text) \cap vectorizer.vocabulary
    IN IF f \cap centroid = {} THEN Zero
       ELSE Rat(Cardinality(f \cap centroid), Cardinality(f \cup centroid))

\* ------------------------------------------------------------------ EnhancedClassifierV3
preprocess_text(lexicon, words, text) ==
    LET variants(original, cleaned, reserved_result, traditional_words) ==
            [original |-> original,
             cleaned |-> cleaned,
             no_brackets |-> Strip(cleaned),
             bracket_content |-> <<>>,
             lower_case |-> cleaned,
             no_spaces |-> SelectSeq(cleaned, LAMBDA c : c # SP),
             reserved_words |-> reserved_result.reserved_words,
             regular_words |-> reserved_result.regular_words,
             all_tokens |-> reserved_result.all_tokens,
             traditional_words |-> traditional_words,
             traditional_words_filtered |->
                 SelectSeq(traditional_words, LAMBDA w : PyLen(Strip(w)) > 1)]
        process(original, cleaned) ==
            variants(original, cleaned,
                     process_with_reserved_words(lexicon, words, cleaned),
                     JiebaCut(words, cleaned))
        clean(original) == process(original, CollapseSpaces(original))
    IN clean(Strip(text))

\* category_texts[category] of build_enhanced_features, the empty texts dropped
RECURSIVE CategoryTexts(_, _, _, _)
CategoryTexts(data, category, lexicon, words) ==
    IF data = <<>> THEN <<>>
    ELSE LET texts(processed) ==
                 <<processed.cleaned, processed.no_brackets,
                   processed.bracket_content, Join(processed.all_tokens),
                   Join(processed.traditional_words_filtered)>>
         IN (IF Head(data).category = category
             THEN SelectSeq(texts(preprocess_text(lexicon, words, Head(data).asset_name)),
                            LAMBDA t : Strip(t) # <<>>)
             ELSE <<>>) \o CategoryTexts(Tail(data), category, lexicon, words)

\* build_enhanced_features: the vectorizer and the centroid of every category
\* that has a text
build_enhanced_features(data, lexicon, words) ==
    IF data = <<>> THEN [vectorizer |-> NoVectorizer, category_vectors |-> <<>>]
    ELSE LET fit(cats, texts) ==
                 [vectorizer |->
                     [built |-> TRUE,
                      vocabulary |->
                          UNION {Features(t) : t \in UNION {texts[c] : c \in cats}}],
                  category_vectors |->
                     [c \in {k \in cats : texts[k] # {}} |->
                         UNION {Features(t) : t \in texts[c]}]]
             collect(cats) ==
                 fit(cats, [c \in cats |->
                               SeqToSet(CategoryTexts(data, c, lexicon, words))])
         IN collect(SeqToSet(UniqueCategories(data, <<>>)))

\* `keyword in reserved_word or reserved_word in keyword`
KeywordTouchesReserved(kw, reserved_word) ==
    CASE kw.kind = "whole" ->
            Contains(reserved_word, kw.s) \/ Contains(kw.s, reserved_word)
      [] kw.kind = "part" -> Contains(reserved_word, kw.s)
      [] OTHER -> FALSE

\* `keyword.lower() in all_text`
KeywordInText(kw, all_text) == Contains(all_text, kw.s)

FoundIn(tier, reserved_word) ==
    \E i \in 1..Len(tier) : KeywordTouchesReserved(tier[i], reserved_word)

RECURSIVE ReservedLoop(_, _)
\* the loop of calculate_reserved_word_score: [score, total_matches]
ReservedLoop(reserved_words, keywords) ==
    IF reserved_words = <<>> THEN [score |-> 0, total_matches |-> 0]
    ELSE LET rest == ReservedLoop(Tail(reserved_words), keywords)
             w == Head(reserved_words)
             inc == IF FoundIn(keywords.strong, w) THEN 4
                    ELSE IF FoundIn(keywords.medium, w) THEN 3
                    ELSE IF FoundIn(keywords.weak, w) THEN 2
                    ELSE 0
         IN [score |-> rest.score + inc,
             total_matches |-> rest.total_matches + (IF inc > 0 THEN 1 ELSE 0)]

calculate_reserved_word_score(text_variants, category) ==
    IF category \notin DOMAIN category_keywords THEN Zero
    ELSE IF text_variants.reserved_words = <<>> THEN Zero
    ELSE LET normalized(r) ==
                 IF r.total_matches > 0
                 THEN RatMin(Rat(r.score, Len(text_variants.reserved_words)), One)
                 ELSE Zero
         IN normalized(ReservedLoop(text_variants.reserved_words,
                                    category_keywords[category]))

Hits(tier, all_text) ==
    Cardinality({i \in 1..Len(tier) : KeywordInText(tier[i], all_text)})

calculate_keyword_score(text_variants, category) ==
    IF category \notin DOMAIN category_keywords THEN Zero
    ELSE LET score(keywords, all_text) ==
                 3 * Hits(keywords.strong, all_text)
                 + 2 * Hits(keywords.medium, all_text)
                 + 1 * Hits(keywords.weak, all_text)
             max_possible_score(keywords) ==
                 (Len(keywords.strong) + keywords.strong_rest) * 3
                 + (Len(keywords.medium) + keywords.medium_rest) * 2
                 + (Len(keywords.weak) + keywords.weak_rest) * 1
             normalized(hit, possible) ==
                 IF possible > 0 THEN Rat(hit, possible) ELSE Zero
             match(keywords, all_text) ==
                 normalized(score(keywords, all_text), max_possible_score(keywords))
         IN match(category_keywords[category],
                  Join(<<text_variants.cleaned, text_variants.no_brackets,
                         text_variants.bracket_content,
                         Join(text_variants.all_tokens),
                         Join(text_variants.reserved_words)>>))

\* re.search(pattern, text, re.IGNORECASE)
PatternMatches(pat, text) ==
    IF pat.kind = "ends" THEN \E a \in pat.alts : EndsWith(text, a)
    ELSE \E a \in pat.alts : Contains(text, a)

\* a pattern counted once per text variant it matches
calculate_pattern_score_per_variant(text_variants, category) ==
    IF category \notin DOMAIN category_patterns THEN Zero
    ELSE LET match(patterns, test_texts) ==
                 Rat(Cardinality({<<i, k>> \in (1..Len(patterns.pats)) \X (1..Len(test_texts)) :
                         test_texts[k] # <<>>
                         /\ PatternMatches(patterns.pats[i], test_texts[k])}),
                     Len(patterns.pats) + patterns.rest)
         IN match(category_patterns[category],
                  <<text_variants.cleaned, text_variants.no_brackets,
                    text_variants.bracket_content, text_variants.lower_case,
                    Join(text_variants.reserved_words),
                    Join(text_variants.all_tokens)>>)

calculate_pattern_score(text_variants, category) ==
    IF category \notin DOMAIN category_patterns THEN Zero
    ELSE LET match_count(patterns, test_texts) ==
                 Cardinality({i \in 1..Len(patterns.pats) :
                     \E k \in 1..Len(test_texts) :
                         test_texts[k] # <<>> /\ PatternMatches(patterns.pats[i], test_texts[k])})
             match(patterns, test_texts) ==
                 IF Len(patterns.pats) + patterns.rest > 0
                 THEN Rat(match_count(patterns, test_texts),
                          Len(patterns.pats) + patterns.rest)
                 ELSE Zero
         IN match(category_patterns[category],
                  <<text_variants.cleaned, text_variants.no_brackets,
                    text_variants.bracket_content, text_variants.lower_case,
                    Join(text_variants.reserved_words),
                    Join(text_variants.all_tokens)>>)

\* cosine_similarity(input_vector, self.category_vectors[category]) raises:
\* the centroid is the numpy.matrix that vectors[...].mean(axis=0) returns,
\* which the installed scikit-learn may refuse (TypeError).
CosineRaises == ~sklearn.accepts_matrix

SimilarityOnFailureOne == One

\* `except: return 0.0`
SimilarityOnFailure == Zero

\* the category's centroid replaced by the whole vocabulary when it has none
calculate_similarity_score_any_centroid(self, text_variants, category) ==
    IF ~self.vectorizer.built THEN Zero
    ELSE LET similarity(combined_text) ==
                 IF combined_text = <<>> THEN Zero
                 ELSE CosineSimilarity(self.vectorizer, combined_text,
                          IF category \in DOMAIN self.category_vectors
                          THEN self.category_vectors[category]
                          ELSE self.vectorizer.vocabulary)
         IN similarity(Strip(Join(<<text_variants.cleaned, text_variants.no_brackets,
                                    text_variants.bracket_content,
                                    Join(text_variants.all_tokens)>>)))

\* combined_text of calculate_similarity_score
CombinedText(text_variants) ==
    Strip(Join(<<text_variants.cleaned, text_variants.no_brackets,
                 text_variants.bracket_content, Join(text_variants.all_tokens)>>))

\* calculate_similarity_score gets to `self.vectorizer.transform(...)`: neither
\* of the two early returns is taken
ReachesTransform(self, text_variants, category) ==
    /\ self.vectorizer.built
    /\ category \in DOMAIN self.category_vectors
    /\ CombinedText(text_variants) # <<>>

calculate_similarity_score(self, text_variants, category) ==
    IF ~self.vectorizer.built \/ category \notin DOMAIN self.category_vectors THEN Zero
    ELSE LET similarity(combined_text) ==
                 IF combined_text = <<>> THEN Zero
                 ELSE IF CosineRaises THEN SimilarityOnFailure
                 ELSE CosineSimilarity(self.vectorizer, combined_text,
                                       self.category_vectors[category])
         IN similarity(Strip(Join(<<text_variants.cleaned, text_variants.no_brackets,
                                    text_variants.bracket_content,
                                    Join(text_variants.all_tokens)>>)))

\* The multipliers of apply_exclusion_rules, in tenths.
Times(base_score, tenths) == RatMul(base_score, Rat(tenths, 10))

BoostReservedAsPenalty(base_score) == Times(base_score, 2)

BoostReservedForgotten(base_score) == base_score

\* `return base_score * 2.0` of the include_reserved_words rule
BoostReserved(base_score) == Times(base_score, 20)

PenalizeReservedAsBoost(base_score) == Times(base_score, 20)

PenalizeReservedStacked(base_score) == Times(Times(base_score, 2), 3)

\* `return base_score * 0.2` of the exclude_reserved_words rule
PenalizeReserved(base_score) == Times(base_score, 2)

\* apply_exclusion_rules on an instance whose self.exclusion_rules is `table`,
\* with the rule lists named in `removed` taken out of the category's rules;
\* the rules are tried in the order of the code and the first that matches
\* returns.
ApplyRuleSet(table, text_variants, category, base_score, removed) ==
    IF category \notin DOMAIN table THEN base_score
    ELSE LET adjust(rules, reserved_words, combined_text) ==
                 LET has(key) == key \in DOMAIN rules /\ key \notin removed
                     anyIn(list) ==
                         \E i \in 1..Len(list) : IsMember(list[i], reserved_words)
                     anyPair(list) ==
                         \E i \in 1..Len(list) :
                             /\ IsMember(list[i][1], reserved_words)
                             /\ Contains(combined_text, list[i][2])
                     anySub(list) ==
                         \E i \in 1..Len(list) : Contains(combined_text, list[i])
                 IN IF has("include_reserved_words")
                         /\ anyIn(rules.include_reserved_words)
                        THEN BoostReserved(base_score)
                    ELSE IF has("exclude_reserved_words")
                            /\ anyIn(rules.exclude_reserved_words)
                        THEN PenalizeReserved(base_score)
                    ELSE IF has("include_if_reserved_and_contains")
                            /\ anyPair(rules.include_if_reserved_and_contains)
                        THEN Times(base_score, 20)
                    ELSE IF has("exclude_if_reserved_and_contains")
                            /\ anyPair(rules.exclude_if_reserved_and_contains)
                        THEN Times(base_score, 2)
                    ELSE IF has("exclude_if_contains")
                            /\ anySub(rules.exclude_if_contains)
                        THEN Times(base_score, 3)
                    ELSE IF has("include_if_contains")
                            /\ anySub(rules.include_if_contains)
                        THEN Times(base_score, 15)
                    ELSE base_score
         IN adjust(table[category], text_variants.reserved_words,
                   Join(<<text_variants.cleaned, text_variants.no_brackets,
                          text_variants.bracket_content>>))

\* apply_exclusion_rules with the rules create_category_rules sets
ApplyRules(text_variants, category, base_score, removed) ==
    ApplyRuleSet(exclusion_rules, text_variants, category, base_score, removed)

apply_exclusion_rules(text_variants, category, base_score) ==
    ApplyRules(text_variants, category, base_score, {})

\* reserved * 0.4 + keyword * 0.25 + pattern * 0.2 + similarity * 0.15
\* the reserved weight raised to 0.5, the others kept
WeightedSumHeavy(reserved_score, keyword_score, pattern_score, similarity_score) ==
    RatAdd(RatAdd(RatMul(reserved_score, Rat(50, 100)),
                  RatMul(keyword_score, Rat(25, 100))),
           RatAdd(RatMul(pattern_score, Rat(20, 100)),
                  RatMul(similarity_score, Rat(15, 100))))

WeightedSum(reserved_score, keyword_score, pattern_score, similarity_score) ==
    RatAdd(RatAdd(RatMul(reserved_score, Rat(40, 100)),
                  RatMul(keyword_score, Rat(25, 100))),
           RatAdd(RatMul(pattern_score, Rat(20, 100)),
                  RatMul(similarity_score, Rat(15, 100))))

\* the body of the for loop of classify_text
CategoryScoreV3(self, text_variants, category) ==
    LET scored(reserved_score, keyword_score, pattern_score, similarity_score) ==
            [total_score |->
                apply_exclusion_rules(text_variants, category,
                    WeightedSum(reserved_score, keyword_score,
                                pattern_score, similarity_score)),
             reserved_score |-> reserved_score,
             keyword_score |-> keyword_score,
             pattern_score |-> pattern_score,
             similarity_score |-> similarity_score]
    IN scored(calculate_reserved_word_score(text_variants, category),
              calculate_keyword_score(text_variants, category),
              calculate_pattern_score(text_variants, category),
              calculate_similarity_score(self, text_variants, category))

RECURSIVE ArgMaxFrom(_, _, _)
\* max(keys, key=...) over the scores of the keys in iteration order: the
\* index of the first score that no later score beats, scanning from k with
\* the best index so far
ArgMaxFrom(scores, best, k) ==
    IF k > Len(scores) THEN best
    ELSE ArgMaxFrom(scores, IF RatLess(scores[best], scores[k]) THEN k ELSE best, k + 1)

RECURSIVE ArgMinFrom(_, _, _)
ArgMinFrom(scores, best, k) ==
    IF k > Len(scores) THEN best
    ELSE ArgMinFrom(scores, IF RatLess(scores[k], scores[best]) THEN k ELSE best, k + 1)

ArgMin(scores) == ArgMinFrom(scores, 1, 2)

RECURSIVE ArgMaxLastFrom(_, _, _)
ArgMaxLastFrom(scores, best, k) ==
    IF k > Len(scores) THEN best
    ELSE ArgMaxLastFrom(scores, IF RatLess(scores[k], scores[best]) THEN best ELSE k, k + 1)

ArgMaxLast(scores) == ArgMaxLastFrom(scores, 1, 2)

ArgMax(scores) == ArgMaxFrom(scores, 1, 2)

RECURSIVE IndexOf(_, _)
IndexOf(seq, x) == IF Head(seq) = x THEN 1 ELSE 1 + IndexOf(Tail(seq), x)

RECURSIVE ScoresV3(_, _, _)
\* the for loop of classify_text
ScoresV3(self, text_variants, categories) ==
    IF categories = <<>> THEN <<>>
    ELSE <<CategoryScoreV3(self, text_variants, Head(categories))>>
         \o ScoresV3(self, text_variants, Tail(categories))

NoTrainingData == [error |-> TRUE]

classify_text(self, words, input_text) ==
    IF self.data = <<>> THEN NoTrainingData
    ELSE LET result(text_variants, categories, scores, best) ==
                 [error |-> FALSE,
                  input_text |-> input_text,
                  reserved_words |-> text_variants.reserved_words,
                  regular_words |-> text_variants.regular_words,
                  categories |-> categories,
                  best_prediction |-> categories[best],
                  all_scores |->
                      [c \in SeqToSet(categories) |-> scores[IndexOf(categories, c)]],
                  confidence |-> scores[best].total_score]
             decide(text_variants, categories, scores) ==
                 result(text_variants, categories, scores,
                        ArgMax([k \in 1..Len(scores) |-> scores[k].total_score]))
             score(text_variants, categories) ==
                 decide(text_variants, categories,
                        ScoresV3(self, text_variants, categories))
         IN score(preprocess_text(self.reserved_words, words, input_text),
                  UniqueCategories(self.data, <<>>))

\* ------------------------------------------------------------------ UltimateClassifier
\* self.category_rules, each list cut down to the entries the chunks can
\* spell (the scores of calculate_score count hits and have no denominator).
\* Only 人員 has the key exclude_if_has_reserved.
category_rules ==
    [software |->
        [keywords |-> <<XiTong, <<"ruanti">>, <<"chengshi">>, MySQL>>,
         patterns |-> <<PatEnds(XiTong), PatEnds(<<"ruanti">>),
                        PatContains({<<"chengshi">>})>>,
         reserved_boost |-> <<MySQL>>,
         exclude_if_has_reserved |-> <<>>],
     physical |->
        [keywords |-> <<SheBei, <<"yingti">>, <<"zhuji">>, FangHuoQiang>>,
         patterns |-> <<PatEnds(SheBei), PatEnds(<<"zhuji">>)>>,
         reserved_boost |-> <<FangHuoQiangSheBei>>,
         exclude_if_has_reserved |-> <<>>],
     data |->
        [keywords |-> <<WenJian, ZuoYe>>,
         patterns |-> <<PatContains({WenJian})>>,
         reserved_boost |-> <<ZuoYeWenJian>>,
         exclude_if_has_reserved |-> <<>>],
     personnel |->
        [keywords |-> <<RenYuan>>,
         patterns |-> <<PatEnds(RenYuan)>>,
         reserved_boost |-> <<>>,
         exclude_if_has_reserved |-> <<ZuoYeWenJian>>],
     service |->
        [keywords |-> <<>>,
         patterns |-> <<>>,
         reserved_boost |-> <<>>,
         exclude_if_has_reserved |-> <<>>]]

\* category_texts[category] of build_features, the empty texts dropped
RECURSIVE UltimateCategoryTexts(_, _, _, _)
UltimateCategoryTexts(data, category, lexicon, words) ==
    IF data = <<>> THEN <<>>
    ELSE LET texts(processed) ==
                 <<processed.processed_text, processed.original,
                   Join(processed.remaining_words), Join(processed.expanded_tokens)>>
         IN (IF Head(data).category = category
             THEN SelectSeq(texts(process_text_with_reserved_words(
                                      lexicon, words, Head(data).asset_name)),
                            LAMBDA t : Strip(t) # <<>>)
             ELSE <<>>) \o UltimateCategoryTexts(Tail(data), category, lexicon, words)

build_features(data, lexicon, words) ==
    LET fit(cats, texts) ==
            IF \A c \in cats : texts[c] = {}
            THEN [vectorizer |-> NoVectorizer, category_vectors |-> <<>>]
            ELSE [vectorizer |->
                     [built |-> TRUE,
                      vocabulary |->
                          UNION {Features(t) : t \in UNION {texts[c] : c \in cats}}],
                  category_vectors |->
                     [c \in {k \in cats : texts[k] # {}} |->
                         UNION {Features(t) : t \in texts[c]}]]
        collect(cats) ==
            fit(cats, [c \in cats |->
                          SeqToSet(UltimateCategoryTexts(data, c, lexicon, words))])
    IN collect(SeqToSet(UniqueCategories(data, <<>>)))

KeywordHitSwapped(processed, keyword) == Contains(keyword, processed)

\* `keyword in processed_text['processed_text']`
KeywordHit(processed, keyword) == Contains(processed, keyword)

\* the weighted sum of calculate_score minus the penalty
UltimateFinal(reserved_score, keyword_score, pattern_score, similarity_score, penalty) ==
    RatAdd(WeightedSum(reserved_score, keyword_score, pattern_score, similarity_score),
           RatNeg(penalty))

\* the sub-scores of calculate_score and exclude_penalty
UltimateParts(self, processed_text, category) ==
    LET parts(rules) ==
            [reserved_score |->
                Rat(3 * Cardinality({i \in 1..Len(rules.reserved_boost) :
                        IsMember(rules.reserved_boost[i],
                                 processed_text.reserved_words)}), 1),
             keyword_score |->
                Rat(Cardinality({i \in 1..Len(rules.keywords) :
                        KeywordHit(processed_text.processed_text,
                                   rules.keywords[i])}), 1),
             pattern_score |->
                Rat(Cardinality({i \in 1..Len(rules.patterns) :
                        PatternMatches(rules.patterns[i],
                                       processed_text.original)}), 1),
             similarity_score |->
                IF self.vectorizer.built /\ category \in DOMAIN self.category_vectors
                THEN CosineSimilarity(self.vectorizer, processed_text.processed_text,
                                      self.category_vectors[category])
                ELSE Zero,
             exclude_penalty |->
                IF \E i \in 1..Len(rules.exclude_if_has_reserved) :
                       IsMember(rules.exclude_if_has_reserved[i],
                                processed_text.reserved_words)
                THEN Rat(2, 1) ELSE Zero]
    IN parts(category_rules[category])

calculate_score(self, processed_text, category) ==
    IF category \notin DOMAIN category_rules THEN Zero
    ELSE LET final(p) ==
                 RatMax(Zero, UltimateFinal(p.reserved_score, p.keyword_score,
                                            p.pattern_score, p.similarity_score,
                                            p.exclude_penalty))
         IN final(UltimateParts(self, processed_text, category))

RECURSIVE ScoresUltimate(_, _, _)
\* the for loop of classify
ScoresUltimate(self, processed_text, categories) ==
    IF categories = <<>> THEN <<>>
    ELSE <<calculate_score(self, processed_text, Head(categories))>>
         \o ScoresUltimate(self, processed_text, Tail(categories))

\* (the key predicted_category is kept under its V3 name best_prediction, and
\* processed_info is given by its reserved_words and remaining_words)
classify(self, words, input_text) ==
    IF self.data = <<>> THEN NoTrainingData
    ELSE LET result(processed_text, categories, scores, best) ==
                 [error |-> FALSE,
                  input_text |-> input_text,
                  reserved_words |-> processed_text.reserved_words,
                  regular_words |-> processed_text.remaining_words,
                  categories |-> categories,
                  best_prediction |-> categories[best],
                  all_scores |->
                      [c \in SeqToSet(categories) |-> scores[IndexOf(categories, c)]],
                  confidence |-> scores[best]]
             decide(processed_text, categories, scores) ==
                 result(processed_text, categories, scores, ArgMax(scores))
             score(processed_text, categories) ==
                 decide(processed_text, categories,
                        ScoresUltimate(self, processed_text, categories))
         IN score(process_text_with_reserved_words(self.reserved_words, words, input_text),
                  UniqueCategories(self.data, <<>>))

\* ------------------------------------------------------------------ the program
\* Training sources RA_data.csv may be: rows in file order.  The empty
\* sequence is the DataFrame load_data falls back to when the read fails.
DataRA ==
    <<Row(FangHuoQiangSheBei, "physical"), Row(ZuoYeWenJian, "data"),
      Row(RenYuan, "personnel"), Row(MySQL, "software")>>

DataV3 ==
    <<Row(RenYuan, "personnel"), Row(<<"zuoye", "renyuan">>, "personnel"),
      Row(FangHuoQiangSheBei, "hardware"), Row(MySQL, "software"),
      Row(ZuoYeWenJian, "data")>>

DataTwin ==
    <<Row(SheBei, "hardware"), Row(SheBei, "software"), Row(RenYuan, "service")>>

Unreadable == <<>>

DataSources == {DataRA, DataV3, DataTwin, Unreadable}

InstIds == 1..MaxInst

NoInstance ==
    [kind |-> "none", data |-> <<>>, reserved_words |-> <<>>,
     vectorizer |-> NoVectorizer, category_vectors |-> <<>>]

None == [op |-> "none"]

\* "MySQL 軟體 程式 語言 平台 框架 unix java python asp .net server 開發
\*  防火牆 硬體 設備 主機 電腦 交換器 路由器 機器 終端 裝置"
BalancedInput ==
    <<"mysql", SP, "ruanti", SP, "chengshi", SP, "yuyan", SP, "pingtai", SP,
      "kuangjia", SP, "unix", SP, "java", SP, "python", SP, "asp", SP, "dotnet", SP,
      "server", SP, "kaifa", SP, "fanghuo", "qiang", SP, "yingti", SP, "shebei", SP,
      "zhuji", SP, "diannao", SP, "jiaohuanqi", SP, "luyouqi", SP, "jiqi", SP,
      "zhongduan", SP, "zhuangzhi">>

LongInputs == {BalancedInput, ZuoYeXiTong}

Inputs == Texts \cup LongInputs

\* "作業系統管理員"
OverlapInput == <<"zuoye", "xitong", "guanliyuan">>

\* "文件的"
ParticleInput == <<"wenjian", "de">>

\* "防火牆 防火牆設備"
RepeatInput == <<"fanghuo", "qiang", SP, "fanghuo", "qiang", "shebei">>

\* The texts segmentation is called with.
SegmentInputs == Inputs \cup {OverlapInput, ParticleInput, RepeatInput}

\* No TextClassifier constructed yet.
NoTrainer == [constructed |-> FALSE, is_trained |-> FALSE, attempts |-> 0, failures |-> 0]

\* No embedding system constructed yet.
NoEmbedding == [constructed |-> FALSE]

\* No ConfigManager at work yet.
NoConfig == [opened |-> FALSE]

\* The scikit-learn the process runs on: whether its cosine_similarity takes a
\* numpy.matrix (releases before 1.2 do, later ones raise TypeError).
Sklearns == {[accepts_matrix |-> TRUE], [accepts_matrix |-> FALSE]}

Init ==
    /\ jieba = JiebaFresh
    /\ inst = [i \in InstIds |-> NoInstance]
    /\ last = None
    /\ repeat = None
    /\ sklearn \in Sklearns
    /\ trainer = NoTrainer
    /\ embed = NoEmbedding
    /\ config = NoConfig

\* EnhancedClassifierV3(data_path): the ReservedWordProcessor registers its
\* lexicon, then load_data, build_enhanced_features, create_category_rules.
NewV3(j, data) ==
    LET instance(f) ==
            [kind |-> "V3", data |-> data, reserved_words |-> V3ReservedWords,
             vectorizer |-> f.vectorizer, category_vectors |-> f.category_vectors]
    IN instance(build_enhanced_features(data, V3ReservedWords, j.user_words))

ConstructV3(i, data) ==
    /\ last = None
    /\ inst[i].kind = "none"
    /\ jieba' = JiebaAddWords(jieba, V3ReservedWords)
    /\ inst' = [inst EXCEPT ![i] = NewV3(jieba', data)]
    /\ UNCHANGED <<last, repeat, sklearn, trainer, embed, config>>

\* UltimateClassifier(data_path): _register_reserved_words, load_data,
\* build_features, create_rules.
NewUltimate(j, data) ==
    LET instance(f) ==
            [kind |-> "Ultimate", data |-> data, reserved_words |-> UltimateReservedWords,
             vectorizer |-> f.vectorizer, category_vectors |-> f.category_vectors]
    IN instance(build_features(data, UltimateReservedWords, j.user_words))

ConstructUltimate(i, data) ==
    /\ last = None
    /\ inst[i].kind = "none"
    /\ jieba' = JiebaAddWords(jieba, UltimateReservedWords)
    /\ inst' = [inst EXCEPT ![i] = NewUltimate(jieba', data)]
    /\ UNCHANGED <<last, repeat, sklearn, trainer, embed, config>>

\* SimpleReservedWordDemo()
ConstructDemo(i) ==
    /\ last = None
    /\ inst[i].kind = "none"
    /\ jieba' = JiebaAddWords(jieba, DemoReservedWords)
    /\ inst' = [inst EXCEPT ![i] = [NoInstance EXCEPT !.kind = "Demo",
                                               !.reserved_words = DemoReservedWords]]
    /\ UNCHANGED <<last, repeat, sklearn, trainer, embed, config>>

\* SimpleReservedWordDemo.compare_segmentation(text): importlib.reload(jieba)
\* puts a fresh tokenizer in place of the process-wide one, the text is cut,
\* the demo's words are registered again and the text is cut again.
CompareSegmentation(i) ==
    /\ last = None
    /\ inst[i].kind = "Demo"
    /\ jieba' = JiebaAddWords(JiebaFresh, inst[i].reserved_words)
    /\ \E text \in Inputs :
          last' = [op |-> "compare", id |-> i, text |-> text,
                   without_reserved |-> JiebaCut(JiebaFresh.user_words, text),
                   with_reserved |-> JiebaCut(jieba'.user_words, text)]
    /\ UNCHANGED <<inst, repeat, sklearn, trainer, embed, config>>

\* What segmentation the instance returns for text with the tokenizer as it is.
SegmentOf(self, j, text) ==
    IF self.kind = "V3"
    THEN process_with_reserved_words(self.reserved_words, j.user_words, text)
    ELSE LET renamed(r) ==
                 [reserved_words |-> r.reserved_words,
                  regular_words |-> r.remaining_words,
                  all_tokens |-> r.all_tokens,
                  original_text |-> r.original]
         IN renamed(process_text_with_reserved_words(
                        self.reserved_words, j.user_words, text))

\* reserved_processor.process_with_reserved_words(text) on a V3 instance,
\* process_text_with_reserved_words(text) on an UltimateClassifier
Segment(i) ==
    /\ last = None
    /\ inst[i].kind \in {"V3", "Ultimate"}
    /\ \E text \in SegmentInputs :
          last' = [op |-> "segment", id |-> i, text |-> text,
                   result |-> SegmentOf(inst[i], jieba, text)]
    /\ jieba' = [jieba EXCEPT !.initialized = TRUE]
    /\ UNCHANGED <<inst, repeat, sklearn, trainer, embed, config>>

\* What the instance returns for classify_text(text) / classify(text).
ClassifyOf(self, j, text) ==
    IF self.kind = "V3" THEN classify_text(self, j.user_words, text)
    ELSE classify(self, j.user_words, text)

AfterClassifyDropsVectorizer(self, text) ==
    [self EXCEPT !.vectorizer = NoVectorizer]

AfterClassifyForgetsData(self, text) == [self EXCEPT !.data = <<>>]

\* The instance after a classify call: neither method assigns to self.
AfterClassify(self, text) == self

Classify(i) ==
    /\ last = None
    /\ inst[i].kind \in {"V3", "Ultimate"}
    /\ \E text \in Inputs :
          /\ last' = [op |-> "classify", id |-> i, text |-> text,
                      result |-> ClassifyOf(inst[i], jieba, text)]
          /\ inst' = [inst EXCEPT ![i] = AfterClassify(@, text)]
    /\ jieba' = [jieba EXCEPT !.initialized = TRUE]
    /\ UNCHANGED <<repeat, sklearn, trainer, embed, config>>

\* The same call once more, right after the first.
ClassifyAgain ==
    /\ last.op = "classify"
    /\ repeat = None
    /\ repeat' = [op |-> "classify", id |-> last.id, text |-> last.text,
                  result |-> ClassifyOf(inst[last.id], jieba, last.text)]
    /\ jieba' = [jieba EXCEPT !.initialized = TRUE]
    /\ inst' = [inst EXCEPT ![last.id] = AfterClassify(@, last.text)]
    /\ UNCHANGED <<last, sklearn, trainer, embed, config>>

\* The base scores apply_exclusion_rules is called with directly.
BaseScores == {Rat(-1, 1), Zero, Rat(1, 2), One}

\* A rule set a caller may put in self.exclusion_rules: categories that have
\* a rule on a substring and a rule on a reserved phrase with a substring.
CustomRules ==
    [hardware |-> [include_if_reserved_and_contains |-> <<<<FangHuoQiang, SheBei>>>>,
                   exclude_if_contains |-> <<SheBei>>],
     software |-> [exclude_if_reserved_and_contains |-> <<<<FangHuoQiang, SheBei>>>>,
                   include_if_contains |-> <<SheBei>>],
     data |-> [include_reserved_words |-> <<ZuoYeWenJian>>,
               exclude_reserved_words |-> <<ZuoYeWenJian>>,
               exclude_if_contains |-> <<WenJian>>,
               include_if_contains |-> <<ZuoYe>>],
     personnel |-> [exclude_if_contains |-> <<WenJian>>,
                    include_if_contains |-> <<RenYuan>>]]

RuleTables == {exclusion_rules, CustomRules}

\* apply_exclusion_rules(preprocess_text(text), category, base_score) on a V3
\* instance whose self.exclusion_rules is one of RuleTables
ApplyExclusionRules(i) ==
    /\ last = None
    /\ inst[i].kind = "V3"
    /\ \E text \in Inputs :
          LET apply(text_variants) ==
                  \E table \in RuleTables, category \in Categories,
                     base_score \in BaseScores :
                     last' = [op |-> "rules", id |-> i, text |-> text,
                              category |-> category, base_score |-> base_score,
                              rules |-> table,
                              result |-> ApplyRuleSet(table, text_variants,
                                                      category, base_score, {})]
          IN apply(preprocess_text(inst[i].reserved_words, jieba.user_words, text))
    /\ jieba' = [jieba EXCEPT !.initialized = TRUE]
    /\ UNCHANGED <<inst, repeat, sklearn, trainer, embed, config>>

\* The caller lets go of the results it holds.
Discard ==
    /\ last # None
    /\ last' = None
    /\ repeat' = None
    /\ UNCHANGED <<jieba, inst, sklearn, trainer, embed, config>>

\* One classifier in the process.
Next ==
    \/ \E data \in DataSources : ConstructV3(1, data)
    \/ \E data \in DataSources : ConstructUltimate(1, data)
    \/ Segment(1)
    \/ Classify(1)
    \/ ClassifyAgain
    \/ Discard

Spec == Init /\ [][Next]_vars

\* Several processors, classifiers and demos in the process, segmenting.
NextShared ==
    \/ \E i \in InstIds : ConstructV3(i, DataRA)
    \/ \E i \in InstIds : ConstructUltimate(i, DataRA)
    \/ \E i \in InstIds : ConstructDemo(i)
    \/ \E i \in InstIds : CompareSegmentation(i)
    \/ \E i \in InstIds : Segment(i)
    \/ Discard

SpecShared == Init /\ [][NextShared]_vars

\* One V3 classifier whose rule layer is called directly.
NextRules ==
    \/ ConstructV3(1, DataRA)
    \/ ApplyExclusionRules(1)
    \/ Discard

\* The rule layer makes no call into scikit-learn.
InitRules == Init /\ sklearn.accepts_matrix

SpecRules == InitRules /\ [][NextRules]_vars

\* Training data in which 資料 has a blank asset name only.
DataBlank == <<Row(<<SP>>, "data"), Row(SheBei, "hardware")>>

\* calculate_similarity_score(preprocess_text(text), category) on a V3
\* instance
SimilarityScore(i) ==
    /\ last = None
    /\ inst[i].kind = "V3"
    /\ \E text \in Inputs :
          LET call(text_variants) ==
                  \E category \in Categories :
                     last' = [op |-> "similarity", id |-> i, text |-> text,
                              category |-> category,
                              transformed |->
                                  ReachesTransform(inst[i], text_variants, category),
                              result |-> calculate_similarity_score(
                                             inst[i], text_variants, category)]
          IN call(preprocess_text(inst[i].reserved_words, jieba.user_words, text))
    /\ jieba' = [jieba EXCEPT !.initialized = TRUE]
    /\ UNCHANGED <<inst, repeat, sklearn, trainer, embed, config>>

\* One V3 classifier whose similarity score is called directly.
NextSimilarity ==
    \/ \E data \in {DataV3, DataBlank, Unreadable} : ConstructV3(1, data)
    \/ SimilarityScore(1)
    \/ Discard

SpecSimilarity == Init /\ [][NextSimilarity]_vars

\* ------------------------------------------------------------------ LightweightEmbeddingSystem / EnhancedEmbeddingSystem
\* the chunks [^\u4e00-\u9fa5a-zA-Z0-9\s\-\(\)] matches
SpecialChunks == {"bang"}

\* the chunks that start with a character of [a-zA-Z0-9]
LatinChunks == {"mysql", "server", "unix", "java", "python", "dotnet", "asp", "a"}

\* re.sub(r'[^\u4e00-\u9fa5a-zA-Z0-9\s\-\(\)]', ' ', text)
RemoveSpecial(text) ==
    [k \in 1..Len(text) |-> IF text[k] \in SpecialChunks THEN SP ELSE text[k]]

\* `len(word) > 1 or re.match(r'[a-zA-Z0-9]', word)` of the stripped word
Meaningful(word) ==
    \/ PyLen(word) > 1
    \/ word # <<>> /\ Head(word) \in LatinChunks

RECURSIVE MeaningfulWords(_)
\* the loop over words: each word stripped, the meaningful ones kept
MeaningfulWords(words) ==
    IF words = <<>> THEN <<>>
    ELSE IF Meaningful(Strip(Head(words)))
         THEN <<Strip(Head(words))>> \o MeaningfulWords(Tail(words))
         ELSE MeaningfulWords(Tail(words))

\* LightweightEmbeddingSystem.preprocess_text and
\* EnhancedEmbeddingSystem.preprocess_text (the same statements): `text` is
\* reassigned by the two re.sub lines before the last line returns it.
embedding_preprocess_text(words, text) ==
    LET answer(cleaned, processed) ==
            IF processed # <<>> THEN processed ELSE cleaned
        cut(cleaned) ==
            answer(cleaned, Join(MeaningfulWords(JiebaCut(words, cleaned))))
    IN cut(Strip(CollapseSpaces(RemoveSpecial(text))))

EmbedAlphabet == {"wenjian", "qiang", "bang", "a", SP}

\* The texts preprocess_text of an embedding system is called with.
EmbedTexts == UNION {[1..n -> EmbedAlphabet] : n \in 0..MaxLen}

\* system.preprocess_text(text)
EmbedPreprocess ==
    /\ last = None
    /\ \E text \in EmbedTexts :
          last' = [op |-> "embed_preprocess", text |-> text,
                   result |-> embedding_preprocess_text(jieba.user_words, text)]
    /\ jieba' = [jieba EXCEPT !.initialized = TRUE]
    /\ UNCHANGED <<inst, repeat, sklearn, trainer, embed, config>>

\* An embedding system preprocessing texts.
NextPreprocess ==
    \/ EmbedPreprocess
    \/ Discard

SpecPreprocess == Init /\ [][NextPreprocess]_vars

\* The CSV the embedding system is pointed at.
EmbedCsv == DataTwin

\* What save_embeddings pickles: the three lists and the matrices (their row
\* count).
Pickled(e) ==
    [processed_texts |-> e.processed_texts, categories |-> e.categories,
     asset_names |-> e.asset_names, matrix_rows |-> e.matrix_rows]

RECURSIVE ProcessedRows(_, _)
\* the rows of the CSV as load_and_process_data appends them
ProcessedRows(words, data) ==
    IF data = <<>> THEN <<>>
    ELSE <<[processed_name |-> embedding_preprocess_text(words, Head(data).asset_name),
            category |-> Head(data).category,
            asset_name |-> Head(data).asset_name]>>
         \o ProcessedRows(words, Tail(data))

\* The embeddings file a process finds: none, one that does not unpickle, or
\* the one an earlier process saved from the CSV.
EmbeddingFiles ==
    {[state |-> "absent"], [state |-> "corrupt"],
     [state |-> "saved",
      data |-> [processed_texts |->
                    [k \in 1..Len(EmbedCsv) |-> ProcessedRows({}, EmbedCsv)[k].processed_name],
                categories |-> [k \in 1..Len(EmbedCsv) |-> EmbedCsv[k].category],
                asset_names |-> [k \in 1..Len(EmbedCsv) |-> EmbedCsv[k].asset_name],
                matrix_rows |-> Len(EmbedCsv)]]}

\* LightweightEmbeddingSystem(csv_path) / EnhancedEmbeddingSystem(csv_path)
ConstructEmbedding ==
    /\ ~embed.constructed
    /\ \E file \in EmbeddingFiles :
          embed' = [constructed |-> TRUE, processed_texts |-> <<>>, categories |-> <<>>,
                    asset_names |-> <<>>, matrix_rows |-> 0, builds |-> 0,
                    built |-> "none", embeddings_file |-> file]
    /\ UNCHANGED <<jieba, inst, last, repeat, sklearn, trainer, config>>

\* load_embeddings: [ok, e], e the system after the call
load_embeddings(e) ==
    IF e.embeddings_file.state # "saved" THEN [ok |-> FALSE, e |-> e]
    ELSE LET loaded(data) ==
                 [ok |-> data.processed_texts # <<>> /\ data.categories # <<>>,
                  e |-> [e EXCEPT !.processed_texts = data.processed_texts,
                                  !.categories = data.categories,
                                  !.asset_names = data.asset_names,
                                  !.matrix_rows = data.matrix_rows]]
         IN loaded(e.embeddings_file.data)

\* load_and_process_data on a CSV that was read: the rows appended to the
\* three lists
load_and_process_data(e, rows) ==
    [e EXCEPT !.processed_texts = @ \o [k \in 1..Len(rows) |-> rows[k].processed_name],
              !.categories = @ \o [k \in 1..Len(rows) |-> rows[k].category],
              !.asset_names = @ \o [k \in 1..Len(rows) |-> rows[k].asset_name]]

\* compute_embeddings: every vectorizer fitted on self.processed_texts
compute_embeddings(e) == [e EXCEPT !.matrix_rows = Len(e.processed_texts)]

\* The rest of build_embeddings after the cache was not used: the CSV `data`
\* is read (Unreadable: pd.read_csv raises), the embeddings are computed and
\* saved (saved: the two files could be written).
Rebuild(e, data, saved) ==
    IF data = Unreadable THEN [e EXCEPT !.built = "failed"]
    ELSE LET save(c) ==
                 IF saved
                 THEN [c EXCEPT !.built = "ok",
                                !.embeddings_file = [state |-> "saved", data |-> Pickled(c)]]
                 ELSE [c EXCEPT !.built = "failed"]
             compute(l) ==
                 IF l.processed_texts = <<>> THEN [l EXCEPT !.built = "failed"]
                 ELSE save(compute_embeddings(l))
         IN compute(load_and_process_data(e, ProcessedRows(jieba.user_words, data)))

\* build_embeddings(force_rebuild) as a function of the system
build_embeddings(e, force_rebuild, data, saved) ==
    LET after(l) ==
            IF ~force_rebuild /\ l.ok THEN [l.e EXCEPT !.built = "ok"]
            ELSE Rebuild(IF force_rebuild THEN e ELSE l.e, data, saved)
    IN after(load_embeddings(e))

\* system.build_embeddings(force_rebuild)
BuildEmbeddings ==
    /\ embed.constructed
    /\ embed.builds < MaxAttempts
    /\ \E force_rebuild \in BOOLEAN, data \in {EmbedCsv, Unreadable}, saved \in BOOLEAN :
          embed' = [build_embeddings(embed, force_rebuild, data, saved)
                       EXCEPT !.builds = @ + 1]
    /\ jieba' = [jieba EXCEPT !.initialized = TRUE]
    /\ UNCHANGED <<inst, last, repeat, sklearn, trainer, config>>

\* One embedding system in the process.
NextEmbed ==
    \/ ConstructEmbedding
    \/ BuildEmbeddings
    \/ EmbedPreprocess
    \/ Discard

SpecEmbed == Init /\ [][NextEmbed]_vars

\* ------------------------------------------------------------------ TextClassifier
\* self.categories
TrainerCategories == {"data", "software", "physical", "personnel", "service"}

\* TextClassifier.preprocess_text: the characters that are neither Chinese
\* nor Latin letters nor whitespace blanked, jieba.cut, the words stripped and
\* those of one character dropped
text_classifier_preprocess(words, text) ==
    LET kept(cut) ==
            Join([k \in 1..Len(cut) |-> Strip(cut[k])])
    IN kept(SelectSeq(JiebaCut(words, RemoveSpecial(text)),
                      LAMBDA w : PyLen(Strip(w)) > 1))

\* TextClassifier(csv_path)
ConstructTextClassifier ==
    /\ ~trainer.constructed
    /\ trainer' = [trainer EXCEPT !.constructed = TRUE]
    /\ UNCHANGED <<jieba, inst, last, repeat, sklearn, embed, config>>

\* classify_text(text) on a trained classifier: the prediction is the
\* library's
TrainedClassify(text) ==
    /\ \E best \in TrainerCategories :
          last' = [op |-> "text_classify", text |-> text, returned |-> TRUE,
                   processed_text |-> text_classifier_preprocess(jieba.user_words, text),
                   best_prediction |-> best]
    /\ jieba' = [jieba EXCEPT !.initialized = TRUE]

\* classify_text(text): an untrained classifier first calls train_models,
\* which calls load_and_prepare_data; that returns (None, None) when
\* pd.read_csv raises, train_models then returns False and classify_text
\* None.
TextClassify ==
    /\ last = None
    /\ trainer.constructed
    /\ \E text \in EmbedTexts :
          IF trainer.is_trained
          THEN /\ TrainedClassify(text)
               /\ UNCHANGED trainer
          ELSE /\ trainer.attempts < MaxAttempts
               /\ \E data \in {DataRA, Unreadable} :
                     IF data = Unreadable
                     THEN /\ trainer' = [trainer EXCEPT !.attempts = @ + 1,
                                                       !.failures = @ + 1]
                          /\ last' = [op |-> "text_classify", text |-> text,
                                      returned |-> FALSE]
                          /\ UNCHANGED jieba
                     ELSE /\ trainer' = [trainer EXCEPT !.attempts = @ + 1,
                                                       !.is_trained = TRUE]
                          /\ TrainedClassify(text)
    /\ UNCHANGED <<inst, repeat, sklearn, embed, config>>

\* One TextClassifier in the process.
NextTrainer ==
    \/ ConstructTextClassifier
    \/ TextClassify
    \/ Discard

SpecTrainer == Init /\ [][NextTrainer]_vars

\* ------------------------------------------------------------------ ConfigManager
\* The words and token lists the manager is called with.
ConfigWords == {FangHuoQiang, ZuoYeWenJian, MySQL}
ConfigTokens == {<<ZuoYe, WenJian>>, <<MySQL>>}

\* config['reserved_words'] of the file as a process finds it.
StoredWords ==
    [w \in {FangHuoQiang, ZuoYeWenJian} |->
        IF w = FangHuoQiang THEN <<MySQL>> ELSE <<ZuoYe, WenJian>>]

\* The empty dict.
EmptyWords == [w \in {} |-> <<>>]

\* ConfigManager(): the file it names, and beside it the mapping that the
\* calls made so far have asked for (stored entries with the updates applied).
OpenConfig ==
    /\ ~config.opened
    /\ config' = [opened |-> TRUE, file |-> StoredWords, asked |-> StoredWords]
    /\ UNCHANGED <<jieba, inst, last, repeat, sklearn, trainer, embed>>

\* load_reserved_words: the mapping of the file, {} when reading it raises
load_reserved_words(file, readable) == IF readable THEN file ELSE EmptyWords

\* save_reserved_words: the file rewritten, left alone when writing it raises
save_reserved_words(file, reserved_words, writable) ==
    IF writable THEN reserved_words ELSE file

\* d[word] = tokens
Put(d, word, tokens) ==
    [w \in DOMAIN d \cup {word} |-> IF w = word THEN tokens ELSE d[w]]

\* del d[word]
Del(d, word) == [w \in DOMAIN d \ {word} |-> d[w]]

\* add_reserved_word(word, tokens)
AddReservedWord ==
    /\ config.opened
    /\ \E word \in ConfigWords, tokens \in ConfigTokens, readable \in BOOLEAN,
          writable \in BOOLEAN :
          config' = [config EXCEPT
              !.file = save_reserved_words(@,
                           Put(load_reserved_words(@, readable), word, tokens), writable),
              !.asked = Put(@, word, tokens)]
    /\ UNCHANGED <<jieba, inst, last, repeat, sklearn, trainer, embed>>

\* remove_reserved_word(word)
RemoveReservedWord ==
    /\ config.opened
    /\ \E word \in ConfigWords, readable \in BOOLEAN, writable \in BOOLEAN :
          config' = [config EXCEPT
              !.file = IF word \in DOMAIN load_reserved_words(@, readable)
                       THEN save_reserved_words(@,
                                Del(load_reserved_words(@, readable), word), writable)
                       ELSE @,
              !.asked = Del(@, word)]
    /\ UNCHANGED <<jieba, inst, last, repeat, sklearn, trainer, embed>>

\* One ConfigManager editing the reserved words.
NextConfig ==
    \/ OpenConfig
    \/ AddReservedWord
    \/ RemoveReservedWord

SpecConfig == Init /\ [][NextConfig]_vars

\* ------------------------------------------------------------------ IntegratedClassifierSystem
\* "未知"
Unknown == "unknown"

\* What a member classifier hands back: it raised or had no result, or a
\* category with a score.
Raised == [raised |-> TRUE]
Answer(category, score) == [raised |-> FALSE, category |-> category, score |-> score]

EnsembleCategories == {"software", "data"}

\* enhanced_v2.classify_text: best_prediction with best_score
EnhancedAnswers ==
    {Raised} \cup {Answer(c, q) : c \in EnsembleCategories,
                                  q \in {Zero, Rat(1, 2), One, Rat(3, 2)}}

\* original_classifier.classify_text: best_prediction, and no best_score
OriginalAnswers == {Raised} \cup {Answer(c, Rat(1, 2)) : c \in EnsembleCategories}

\* similarity_analyzer.analyze_similarity: the category and the similarity of
\* the first result, or no result
SimilarityAnswers ==
    {Raised} \cup {Answer(c, q) : c \in EnsembleCategories,
                                  q \in {Zero, Rat(1, 2), Rat(7, 10), Rat(9, 10)}}

\* {'prediction': None, 'confidence': 0, 'weight': 0}
NoVote == [prediction |-> "None", confidence |-> Zero, weight |-> Zero]

\* results, in the order the keys are inserted: enhanced_v2, original,
\* similarity
MemberResults(enhanced, original, similarity) ==
    <<IF enhanced.raised THEN NoVote
      ELSE [prediction |-> enhanced.category, confidence |-> enhanced.score,
            weight |-> Rat(4, 10)],
      IF original.raised THEN NoVote
      ELSE [prediction |-> original.category, confidence |-> original.score,
            weight |-> Rat(3, 10)],
      IF similarity.raised THEN NoVote
      ELSE [prediction |-> similarity.category, confidence |-> similarity.score,
            weight |-> IF RatLess(Rat(8, 10), similarity.score) THEN Rat(4, 10)
                       ELSE IF RatLess(Rat(6, 10), similarity.score) THEN Rat(3, 10)
                       ELSE Rat(2, 10)]>>

RECURSIVE RatSum(_)
RatSum(seq) == IF seq = <<>> THEN Zero ELSE RatAdd(Head(seq), RatSum(Tail(seq)))

\* the predictions of the voting members, in order of first appearance: the
\* keys of category_scores / of the Counter
VotedCategories(voters) ==
    UniqueCategories([k \in 1..Len(voters) |->
                         [category |-> voters[k].prediction]], <<>>)

\* _majority_voting: the prediction most members made, the first of them on a
\* tie
majority_voting(results) ==
    LET voting(r) == r.prediction # "None"
        most(keys) ==
            IF keys = <<>> THEN Unknown
            ELSE keys[ArgMax([k \in 1..Len(keys) |->
                     Rat(Len(SelectSeq(results,
                             LAMBDA r : voting(r) /\ r.prediction = keys[k])), 1)])]
    IN most(VotedCategories(SelectSeq(results, voting)))

\* a vote that counts heads and not weight times confidence
weighted_voting_by_count(results) == majority_voting(results)

\* _weighted_voting: the prediction with the greatest sum of weight times
\* confidence (the division by total_weight changes no order)
weighted_voting(results) ==
    LET voting(r) == r.prediction # "None" /\ RatLess(Zero, r.confidence)
        total_weight ==
            RatSum([k \in 1..Len(SelectSeq(results, voting)) |->
                RatMul(SelectSeq(results, voting)[k].weight,
                       SelectSeq(results, voting)[k].confidence)])
        score(category) ==
            RatSum([k \in 1..Len(SelectSeq(results, voting)) |->
                IF SelectSeq(results, voting)[k].prediction = category
                THEN RatMul(RatMul(SelectSeq(results, voting)[k].weight,
                                   SelectSeq(results, voting)[k].confidence),
                            Rat(total_weight.d, total_weight.n))
                ELSE Zero])
        best(keys) ==
            IF keys = <<>> THEN Unknown
            ELSE keys[ArgMax([k \in 1..Len(keys) |-> score(keys[k])])]
    IN best(VotedCategories(SelectSeq(results, voting)))

\* _calculate_ensemble_confidence
calculate_ensemble_confidence(results, final_prediction) ==
    LET matching(r) == r.prediction = final_prediction /\ RatLess(Zero, r.confidence)
        confidence(m, total_confidence, total_weight) ==
            IF total_weight = Zero THEN Zero
            ELSE RatMin(RatAdd(RatMul(total_confidence,
                                      Rat(total_weight.d, total_weight.n)),
                               RatMul(Rat(Len(m), Len(results)), Rat(2, 10))),
                        One)
        sums(m) ==
            confidence(m,
                RatSum([k \in 1..Len(m) |-> RatMul(m[k].confidence, m[k].weight)]),
                RatSum([k \in 1..Len(m) |-> m[k].weight]))
    IN sums(SelectSeq(results, matching))

\* classify_with_ensemble, given what the three members hand back
classify_with_ensemble(enhanced, original, similarity, use_weighted_voting) ==
    LET answer(results, final_prediction) ==
            [final_prediction |-> final_prediction,
             individual_results |-> results,
             confidence_score |->
                 calculate_ensemble_confidence(results, final_prediction)]
        vote(results) ==
            answer(results, IF use_weighted_voting THEN weighted_voting(results)
                            ELSE majority_voting(results))
    IN vote(MemberResults(enhanced, original, similarity))

\* system.classify_with_ensemble(input_text, use_weighted_voting)
Ensemble ==
    /\ last = None
    /\ \E enhanced \in EnhancedAnswers, original \in OriginalAnswers,
          similarity \in SimilarityAnswers, use_weighted_voting \in BOOLEAN :
          last' = [op |-> "ensemble", weighted |-> use_weighted_voting,
                   result |-> classify_with_ensemble(enhanced, original, similarity,
                                                     use_weighted_voting)]
    /\ UNCHANGED <<jieba, inst, repeat, sklearn, trainer, embed, config>>

\* One IntegratedClassifierSystem classifying.
NextEnsemble ==
    \/ Ensemble
    \/ Discard

SpecEnsemble == Init /\ [][NextEnsemble]_vars

\* ------------------------------------------------------------------ properties
\* The instance the last call was made on, its outcome, and the text variants
\* the call worked on.
Self == inst[last.id]

Classified == last.op = "classify" /\ ~last.result.error

TextVariants == preprocess_text(Self.reserved_words, jieba.user_words, last.text)

ProcessedText ==
    process_text_with_reserved_words(Self.reserved_words, jieba.user_words, last.text)

\* The adjusted score of a category in the last classification.
TotalScore(c) ==
    IF Self.kind = "V3" THEN last.result.all_scores[c].total_score
    ELSE last.result.all_scores[c]

KnownCategories == SeqToSet(last.result.categories)

ProperSubstring(A, B) == A # B /\ Contains(B, A)

\* A occurs in text, and each occurrence lies inside an occurrence of B.
EveryOccurrenceInside(text, A, B) ==
    /\ Contains(text, A)
    /\ \A i \in 1..Len(text) :
          MatchAt(text, A, i) =>
              \E j \in 1..i : MatchAt(text, B, j) /\ i + Len(A) <= j + Len(B)

\* C1: longest-match precedence.  After a segmentation, for lexicon phrases A
\* and B with A a proper substring of B and every occurrence of A in the text
\* inside an occurrence of B, B is among reserved_words and A is not.
C1_LongestMatchPrecedence ==
    last.op = "segment" =>
        \A A \in SeqToSet(Self.reserved_words), B \in SeqToSet(Self.reserved_words) :
            ProperSubstring(A, B) /\ EveryOccurrenceInside(last.text, A, B) =>
                /\ IsMember(B, last.result.reserved_words)
                /\ ~IsMember(A, last.result.reserved_words)

\* C2: segmentation drops nothing.  After a segmentation, every character of
\* the text other than a space occurs in reserved_words ++ regular_words at
\* least as often as in the text.
C2_NoContentDropped ==
    last.op = "segment" =>
        \A c \in SeqToSet(last.text) \ {SP} :
            Count(Flatten(last.result.reserved_words \o last.result.regular_words), c)
                >= Count(last.text, c)

\* C3: decision.  A classification on training data with categories predicts
\* a known category whose adjusted score no known category exceeds, and the
\* confidence is that score.
C3_Decision ==
    Classified =>
        /\ last.result.best_prediction \in KnownCategories
        /\ \A c \in KnownCategories :
              RatLeq(TotalScore(c), TotalScore(last.result.best_prediction))
        /\ last.result.confidence = TotalScore(last.result.best_prediction)

C3_Witness ==
    /\ Classified
    /\ last.result.best_prediction # last.result.categories[1]
    /\ \E c \in KnownCategories :
          RatLess(TotalScore(c), TotalScore(last.result.best_prediction))

\* C4: idempotence.  The same classify call made again right after the first,
\* on the instance as the first call left it, returns the same output.
C4_Idempotent == repeat # None => repeat.result = last.result

C4_Witness ==
    /\ repeat # None
    /\ Classified
    /\ RatLess(Zero, last.result.confidence)
    /\ Self.vectorizer.built

\* C5: separate instances share no state.  No step (a construction, a call on
\* any instance) changes the segmentation an instance that the step leaves
\* constructed returns for any text.
C5_InstancesIsolated ==
    [][\A i \in InstIds :
          (inst[i].kind \in {"V3", "Ultimate"} /\ inst'[i] = inst[i]) =>
              \A text \in Texts :
                  SegmentOf(inst[i], jieba', text) = SegmentOf(inst[i], jieba, text)]_vars

InUnit(x) == RatLeq(Zero, x) /\ RatLeq(x, One)

\* C6: normalization bounds.  In every classification the reserved sub-score
\* and the keyword sub-score of every category lie in [0,1], on a V3 instance
\* and on an UltimateClassifier.
C6_SubScoresNormalized ==
    Classified =>
        \A c \in KnownCategories :
            IF Self.kind = "V3"
            THEN /\ InUnit(last.result.all_scores[c].reserved_score)
                 /\ InUnit(last.result.all_scores[c].keyword_score)
            ELSE c \in DOMAIN category_rules =>
                    /\ InUnit(UltimateParts(Self, ProcessedText, c).reserved_score)
                    /\ InUnit(UltimateParts(Self, ProcessedText, c).keyword_score)

\* reserved_words holds a phrase of the list `key` the table has for the
\* category
HasListedPhraseIn(table, reserved_words, category, key) ==
    /\ category \in DOMAIN table
    /\ key \in DOMAIN table[category]
    /\ \E i \in 1..Len(table[category][key]) :
          IsMember(table[category][key][i], reserved_words)

\* reserved_words holds a phrase of the category's list `key`
HasListedPhrase(reserved_words, category, key) ==
    HasListedPhraseIn(exclusion_rules, reserved_words, category, key)

RulesCall == last.op = "rules"

WithoutBoost ==
    ApplyRuleSet(last.rules, TextVariants, last.category, last.base_score,
                 {"include_reserved_words"})

\* C7 as stated: boost monotonicity for any base score.  When reserved_words
\* hold a phrase of the category's include_reserved_words, apply_exclusion_rules
\* returns at least what it returns with that rule removed.
C7_BoostMonotoneAnyBase ==
    (RulesCall
     /\ HasListedPhraseIn(last.rules, TextVariants.reserved_words, last.category,
                          "include_reserved_words"))
        => RatLeq(WithoutBoost, last.result)

\* C7 amended: the same for every base score that is not negative (the
\* weighted sums classify_text passes are never negative).
C7_BoostMonotone ==
    (RulesCall
     /\ HasListedPhraseIn(last.rules, TextVariants.reserved_words, last.category,
                          "include_reserved_words")
     /\ RatLeq(Zero, last.base_score))
        => RatLeq(WithoutBoost, last.result)

C7_Witness ==
    /\ RulesCall
    /\ HasListedPhraseIn(last.rules, TextVariants.reserved_words, last.category,
                         "include_reserved_words")
    /\ RatLess(Zero, last.base_score)
    /\ RatLess(WithoutBoost, last.result)

\* the weighted sum classify_text passed to apply_exclusion_rules for c
CombinedScore(c) ==
    WeightedSum(last.result.all_scores[c].reserved_score,
                last.result.all_scores[c].keyword_score,
                last.result.all_scores[c].pattern_score,
                last.result.all_scores[c].similarity_score)

WithoutPenaltyV3(c) ==
    ApplyRules(TextVariants, c, CombinedScore(c), {"exclude_reserved_words"})

WithoutPenaltyUltimate(c) ==
    LET p == UltimateParts(Self, ProcessedText, c)
    IN RatMax(Zero, UltimateFinal(p.reserved_score, p.keyword_score,
                                  p.pattern_score, p.similarity_score, Zero))

ExcludedUltimate(c) ==
    /\ c \in DOMAIN category_rules
    /\ \E i \in 1..Len(category_rules[c].exclude_if_has_reserved) :
          IsMember(category_rules[c].exclude_if_has_reserved[i], last.result.reserved_words)

\* C8: exclude monotonicity.  In a classification whose reserved_words hold a
\* phrase of a category's exclude list, the category's adjusted score is at
\* most the score computed with the reserved-phrase exclude rule left out.
C8_ExcludeMonotone ==
    Classified =>
        \A c \in KnownCategories :
            IF Self.kind = "V3"
            THEN HasListedPhrase(last.result.reserved_words, c, "exclude_reserved_words")
                    => RatLeq(TotalScore(c), WithoutPenaltyV3(c))
            ELSE ExcludedUltimate(c) => RatLeq(TotalScore(c), WithoutPenaltyUltimate(c))

C8_Witness ==
    /\ Classified
    /\ Self.kind = "V3"
    /\ \E c \in KnownCategories :
          /\ HasListedPhrase(last.result.reserved_words, c, "exclude_reserved_words")
          /\ RatLess(TotalScore(c), WithoutPenaltyV3(c))

\* a and b have the same keyword, pattern and similarity sub-scores, and of
\* the two only a has a matched reserved phrase on its include_reserved_words
OtherwiseEqualBoosted(a, b) ==
    /\ a # b
    /\ last.result.all_scores[a].keyword_score = last.result.all_scores[b].keyword_score
    /\ last.result.all_scores[a].pattern_score = last.result.all_scores[b].pattern_score
    /\ last.result.all_scores[a].similarity_score
          = last.result.all_scores[b].similarity_score
    /\ HasListedPhrase(last.result.reserved_words, a, "include_reserved_words")
    /\ ~HasListedPhrase(last.result.reserved_words, b, "include_reserved_words")

\* the rule include_if_reserved_and_contains of c matches
CompoundBoosted(c) ==
    /\ c \in DOMAIN exclusion_rules
    /\ "include_if_reserved_and_contains" \in DOMAIN exclusion_rules[c]
    /\ \E i \in 1..Len(exclusion_rules[c].include_if_reserved_and_contains) :
          LET pair == exclusion_rules[c].include_if_reserved_and_contains[i]
          IN /\ IsMember(pair[1], last.result.reserved_words)
             /\ Contains(Join(<<TextVariants.cleaned, TextVariants.no_brackets,
                                TextVariants.bracket_content>>), pair[2])

\* C9 as stated: in a V3 classification, of two categories with the same
\* keyword, pattern and similarity sub-scores of which exactly one has a
\* matched reserved phrase on its include_reserved_words, the other one is
\* not the prediction.
C9_BoostedPreferred ==
    (Classified /\ Self.kind = "V3") =>
        \A a \in KnownCategories, b \in KnownCategories :
            OtherwiseEqualBoosted(a, b) => last.result.best_prediction # b

\* C9 amended: when moreover the reserved sub-score of the boosted category is
\* at least the other's, its adjusted score is at least the other's, and the
\* other is not the prediction unless its own rule
\* include_if_reserved_and_contains doubles its score as well.
C9_BoostedNotBelow ==
    (Classified /\ Self.kind = "V3") =>
        \A a \in KnownCategories, b \in KnownCategories :
            (/\ OtherwiseEqualBoosted(a, b)
             /\ RatLeq(last.result.all_scores[b].reserved_score,
                       last.result.all_scores[a].reserved_score))
                => /\ RatLeq(TotalScore(b), TotalScore(a))
                   /\ ~CompoundBoosted(b) => last.result.best_prediction # b

C9_Witness ==
    /\ Classified
    /\ Self.kind = "V3"
    /\ \E a \in KnownCategories, b \in KnownCategories :
          /\ OtherwiseEqualBoosted(a, b)
          /\ RatLess(Zero, last.result.all_scores[a].keyword_score)
          /\ TotalScore(a) = TotalScore(b)

\* C10: empty input.  classify("") on an instance with training data returns
\* a result, not an error; the prediction is a known category and every
\* category's score, and the confidence, is 0.
C10_EmptyInput ==
    (last.op = "classify" /\ last.text = <<>> /\ Self.data # <<>>) =>
        /\ ~last.result.error
        /\ last.result.best_prediction \in KnownCategories
        /\ \A c \in KnownCategories : TotalScore(c) = Zero
        /\ last.result.confidence = Zero

C10_Witness ==
    /\ last.op = "classify"
    /\ last.text = <<>>
    /\ Self.data # <<>>
    /\ Self.kind = "Ultimate"
    /\ ~last.result.error

\* The categories the instance knows: data['資產類別'].unique()
CategorySet(self) == SeqToSet(UniqueCategories(self.data, <<>>))

\* C11: data-load failure is surfaced at construction.  No classifier the
\* process holds as constructed has an empty category set.
C11_LoadFailureSurfaced ==
    \A i \in InstIds :
        inst[i].kind \in {"V3", "Ultimate"} => CategorySet(inst[i]) # {}

\* The similarity computation of the last classification was attempted for c
\* and raised.
SimilarityFailed(c) ==
    /\ Self.kind = "V3"
    /\ Self.vectorizer.built
    /\ c \in DOMAIN Self.category_vectors
    /\ Strip(last.text) # <<>>
    /\ CosineRaises

\* C12: vectorization failure is fail-soft.  When the similarity computation
\* raises for a category, that category's similarity sub-score is 0, its
\* reserved, keyword and pattern sub-scores are what their calculators give,
\* and the classification is a result with a score for every known category
\* and a known category as prediction.
C12_FailSoft ==
    Classified =>
        \A c \in KnownCategories :
            SimilarityFailed(c) =>
                /\ last.result.all_scores[c].similarity_score = Zero
                /\ last.result.all_scores[c].reserved_score
                      = calculate_reserved_word_score(TextVariants, c)
                /\ last.result.all_scores[c].keyword_score
                      = calculate_keyword_score(TextVariants, c)
                /\ last.result.all_scores[c].pattern_score
                      = calculate_pattern_score(TextVariants, c)
                /\ DOMAIN last.result.all_scores = KnownCategories
                /\ last.result.best_prediction \in KnownCategories

C12_Witness ==
    /\ Classified
    /\ \E c \in KnownCategories :
          /\ SimilarityFailed(c)
          /\ Contains(last.text, Self.data[1].asset_name)
          /\ RatLess(Zero, last.result.all_scores[c].keyword_score)
          /\ last.result.all_scores[c].similarity_score = Zero

\* a step in which a classify_text / classify call returns
ClassifyStep ==
    \/ last.op # "classify" /\ last'.op = "classify"
    \/ repeat = None /\ repeat' # None

\* C13: profiles are read-only after construction.  No classify_text /
\* classify call, the first or a later one, changes the state of any
\* instance (training data, lexicon, vectorizer, category vectors).
C13_ProfilesReadOnly == [][ClassifyStep => inst' = inst]_vars

C13_Witness ==
    /\ repeat # None
    /\ ~repeat.result.error
    /\ Self.kind = "Ultimate"
    /\ Self.vectorizer.built
    /\ Self.category_vectors # <<>>

OverlapAt(A, i, B, j) ==
    \/ i < j /\ j <= i + Len(A) - 1 /\ i + Len(A) < j + Len(B)
    \/ j < i /\ i <= j + Len(B) - 1 /\ j + Len(B) < i + Len(A)

\* A and B occur in text, and every occurrence of A overlaps one of B
Overlapping(text, A, B) ==
    /\ Contains(text, A)
    /\ \A i \in 1..Len(text) :
          MatchAt(text, A, i) =>
              \E j \in 1..Len(text) : MatchAt(text, B, j) /\ OverlapAt(A, i, B, j)

\* C15: overlapping phrases.  After a segmentation, of two lexicon phrases of
\* different lengths that overlap in the text, the longer is among
\* reserved_words and the shorter is not.
C15_LongerOverlapWins ==
    last.op = "segment" =>
        \A A \in SeqToSet(Self.reserved_words), B \in SeqToSet(Self.reserved_words) :
            (PyLen(A) < PyLen(B) /\ Overlapping(last.text, A, B)) =>
                /\ IsMember(B, last.result.reserved_words)
                /\ ~IsMember(A, last.result.reserved_words)

\* a rule of the list `key` on substrings matches the text of the call
SubstringRuleMatches(table, text_variants, category, key) ==
    /\ category \in DOMAIN table
    /\ key \in DOMAIN table[category]
    /\ \E i \in 1..Len(table[category][key]) :
          Contains(Join(<<text_variants.cleaned, text_variants.no_brackets,
                          text_variants.bracket_content>>), table[category][key][i])

\* a rule of the list `key` on a reserved phrase with a substring matches
CompoundRuleMatches(table, text_variants, category, key) ==
    /\ category \in DOMAIN table
    /\ key \in DOMAIN table[category]
    /\ \E i \in 1..Len(table[category][key]) :
          /\ IsMember(table[category][key][i][1], text_variants.reserved_words)
          /\ Contains(Join(<<text_variants.cleaned, text_variants.no_brackets,
                             text_variants.bracket_content>>), table[category][key][i][2])

ReservedRuleMatches ==
    \/ HasListedPhraseIn(last.rules, TextVariants.reserved_words, last.category,
                         "include_reserved_words")
    \/ HasListedPhraseIn(last.rules, TextVariants.reserved_words, last.category,
                         "exclude_reserved_words")

AnySubstringRuleMatches ==
    \/ SubstringRuleMatches(last.rules, TextVariants, last.category, "exclude_if_contains")
    \/ SubstringRuleMatches(last.rules, TextVariants, last.category, "include_if_contains")

AnyCompoundRuleMatches ==
    \/ CompoundRuleMatches(last.rules, TextVariants, last.category,
                           "include_if_reserved_and_contains")
    \/ CompoundRuleMatches(last.rules, TextVariants, last.category,
                           "exclude_if_reserved_and_contains")

\* C16: rule evaluation order.  In a call of apply_exclusion_rules in which
\* no reserved-phrase rule matches and both a substring rule and a compound
\* rule match, the substring rule determines the result: it is what the call
\* returns with the compound rules taken out.
C16_SubstringBeforeCompound ==
    (RulesCall /\ ~ReservedRuleMatches /\ AnySubstringRuleMatches
        /\ AnyCompoundRuleMatches) =>
        last.result = ApplyRuleSet(last.rules, TextVariants, last.category,
                          last.base_score,
                          {"include_if_reserved_and_contains",
                           "exclude_if_reserved_and_contains"})

\* The rule lists in the order apply_exclusion_rules tries them, and the
\* multiplier of each in tenths.
RuleOrder ==
    <<"include_reserved_words", "exclude_reserved_words",
      "include_if_reserved_and_contains", "exclude_if_reserved_and_contains",
      "exclude_if_contains", "include_if_contains">>

Multiplier(key) ==
    CASE key \in {"include_reserved_words", "include_if_reserved_and_contains"} -> 20
      [] key \in {"exclude_reserved_words", "exclude_if_reserved_and_contains"} -> 2
      [] key = "exclude_if_contains" -> 3
      [] OTHER -> 15

\* the rule list `key` matches in the last call of apply_exclusion_rules,
\* made on text_variants
RuleMatches(text_variants, key) ==
    CASE key \in {"include_reserved_words", "exclude_reserved_words"} ->
            HasListedPhraseIn(last.rules, text_variants.reserved_words, last.category, key)
      [] key \in {"include_if_reserved_and_contains", "exclude_if_reserved_and_contains"} ->
            CompoundRuleMatches(last.rules, text_variants, last.category, key)
      [] OTHER -> SubstringRuleMatches(last.rules, text_variants, last.category, key)

MatchingIn(text_variants) ==
    {k \in 1..Len(RuleOrder) : RuleMatches(text_variants, RuleOrder[k])}

Matching == MatchingIn(TextVariants)

FirstOf(matching) == CHOOSE k \in matching : \A j \in matching : k <= j

\* the result is the base score times the multiplier of the rule list `first`
ByRule(first) ==
    /\ last.result = Times(last.base_score, Multiplier(RuleOrder[first]))
    /\ Multiplier(RuleOrder[first]) \in {20, 2, 3, 15}

NoStacking(matching) ==
    IF matching = {} THEN last.result = last.base_score
    ELSE ByRule(FirstOf(matching))

\* C17: no rule stacking.  Every call of apply_exclusion_rules returns the
\* base score unchanged when no rule matches (or the category has no rules),
\* and otherwise the base score times the one multiplier of the first rule
\* that matches: 2.0, 0.2, 0.3 or 1.5.
C17_NoRuleStacking ==
    RulesCall => NoStacking(Matching)

C17_Witness ==
    /\ RulesCall
    /\ Cardinality(Matching) >= 3
    /\ RatLess(Zero, last.base_score)
    /\ RatLess(last.base_score, One)
    /\ last.result = Times(last.base_score, 20)

\* the categories that share the adjusted score of the prediction
TiedCategories ==
    {c \in KnownCategories : TotalScore(c) = TotalScore(last.result.best_prediction)}

\* C18: deterministic tie-break.  The prediction of a classification has the
\* maximum adjusted score and comes first, in the order of first appearance in
\* the training data, among the categories that share that score; the same
\* call made again predicts the same category.
C18_FirstTiedWins ==
    Classified =>
        /\ \A c \in KnownCategories :
              RatLeq(TotalScore(c), TotalScore(last.result.best_prediction))
        /\ \A c \in TiedCategories :
              IndexOf(last.result.categories, last.result.best_prediction)
                  <= IndexOf(last.result.categories, c)
        /\ repeat # None =>
              repeat.result.best_prediction = last.result.best_prediction

C18_Witness ==
    /\ Classified
    /\ repeat # None
    /\ Cardinality(TiedCategories) >= 2
    /\ Cardinality(TiedCategories) < Cardinality(KnownCategories)
    /\ RatLess(Zero, last.result.confidence)
    /\ last.result.best_prediction # last.result.categories[1]

\* ------------------------------------------------------------------ C19
\* the keyword list `tier` names the phrase w itself
TierMember(tier, w) ==
    \E i \in 1..Len(tier) : tier[i].kind = "whole" /\ tier[i].s = w

\* the increment of a reserved phrase by the highest tier that lists it
MemberIncrement(category, w) ==
    IF TierMember(category_keywords[category].strong, w) THEN 4
    ELSE IF TierMember(category_keywords[category].medium, w) THEN 3
    ELSE IF TierMember(category_keywords[category].weak, w) THEN 2
    ELSE 0

RECURSIVE MemberSum(_, _)
MemberSum(category, reserved_words) ==
    IF reserved_words = <<>> THEN 0
    ELSE MemberIncrement(category, Head(reserved_words))
         + MemberSum(category, Tail(reserved_words))

\* C19: reserved score.  In every V3 classification the reserved sub-score of
\* a category is the sum, over the reserved phrases found that are members of
\* the category's keyword tiers, of 4 (strong), 3 (medium) or 2 (weak) by the
\* highest tier listing the phrase, divided by the number of reserved phrases
\* found and capped at 1, and 0 when no phrase was found or none is listed.
C19_ReservedScoreByMembership ==
    (Classified /\ Self.kind = "V3") =>
        \A c \in KnownCategories \cap DOMAIN category_keywords :
            last.result.all_scores[c].reserved_score =
                IF MemberSum(c, last.result.reserved_words) = 0 THEN Zero
                ELSE RatMin(Rat(MemberSum(c, last.result.reserved_words),
                                Len(last.result.reserved_words)), One)

\* ------------------------------------------------------------------ C20
\* 的, of the particles 的 與 及 和 或 (enhanced_classifier_v2.py filters them out
\* of words_no_stop)
Stopwords == {<<"de">>}

\* the chunks of Latin letters
AlnumChunks == {"mysql", "server", "unix", "java", "python", "dotnet", "asp"}

\* remaining_text with the placeholders removed and stripped: what jieba.cut
\* is called on in the last segmentation
CleanRemaining ==
    IF Self.kind = "V3"
    THEN Strip(StripPlaceholders(
             extract_reserved_words(Self.reserved_words, last.text).remaining_text))
    ELSE Strip(StripPlaceholders(
             UltimateExtractLoop(SortedReserved(Self.reserved_words), last.text,
                                 <<>>, last.text).remaining_text))

\* C20: generic-token filter.  Every token a segmentation puts in
\* regular_words (remaining_words) is a token of the generic segmentation of
\* the text left after placeholder removal, is longer than one character or
\* is one alphanumeric character, and is not a stopword.
C20_GenericTokenFilter ==
    last.op = "segment" =>
        \A k \in 1..Len(last.result.regular_words) :
            /\ IsMember(last.result.regular_words[k],
                        JiebaCut(jieba.user_words, CleanRemaining))
            /\ \/ PyLen(last.result.regular_words[k]) > 1
               \/ /\ Len(last.result.regular_words[k]) = 1
                  /\ last.result.regular_words[k][1] \in AlnumChunks
                  /\ PyLen(last.result.regular_words[k]) = 1
            /\ last.result.regular_words[k] \notin Stopwords

\* ------------------------------------------------------------------ C21
\* C21: soundness of reserved_words.  Every segmentation of a text returns a
\* result; every element of its reserved_words is a phrase of the instance's
\* lexicon that occurs in the text, and a phrase of the lexicon that does not
\* occur in the text is not in reserved_words.
C21_ReservedWordsSound ==
    last.op = "segment" =>
        /\ DOMAIN last.result =
              {"reserved_words", "regular_words", "all_tokens", "original_text"}
        /\ \A k \in 1..Len(last.result.reserved_words) :
              /\ IsMember(last.result.reserved_words[k], Self.reserved_words)
              /\ Contains(last.text, last.result.reserved_words[k])
        /\ \A k \in 1..Len(Self.reserved_words) :
              ~Contains(last.text, Self.reserved_words[k]) =>
                  ~IsMember(Self.reserved_words[k], last.result.reserved_words)

C21_Witness ==
    /\ last.op = "segment"
    /\ Self.kind = "V3"
    /\ Contains(last.text, FangHuoQiang)
    /\ ~Contains(last.text, FangHuoQiangSheBei)
    /\ last.result.reserved_words = <<FangHuoQiang>>
    /\ IsMember(ZuoYeWenJian, Self.reserved_words)

\* ------------------------------------------------------------------ C22
\* C22: empty-after-cleaning fallback.  Whenever preprocess_text of an
\* embedding system is given a non-empty text of which cleaning and token
\* filtering leave nothing, it returns the text it was given, untouched; and
\* it never returns an empty result for a non-empty text.
C22_FallbackToOriginal ==
    (last.op = "embed_preprocess" /\ last.text # <<>>) =>
        /\ last.result # <<>>
        /\ MeaningfulWords(JiebaCut(jieba.user_words,
               Strip(CollapseSpaces(RemoveSpecial(last.text))))) = <<>>
              => last.result = last.text

\* ------------------------------------------------------------------ C23
\* the text variants calculate_pattern_score tests, the empty ones left out
TestTexts(text_variants) ==
    {t \in {text_variants.cleaned, text_variants.no_brackets,
            text_variants.bracket_content, text_variants.lower_case,
            Join(text_variants.reserved_words), Join(text_variants.all_tokens)} :
        t # <<>>}

\* the number of patterns of the category that match a variant
MatchedPatterns(test_texts, category) ==
    Cardinality({i \in 1..Len(category_patterns[category].pats) :
        \E t \in test_texts : PatternMatches(category_patterns[category].pats[i], t)})

PatternFraction(test_texts, category) ==
    IF category \notin DOMAIN category_patterns THEN Zero
    ELSE Rat(MatchedPatterns(test_texts, category),
             Len(category_patterns[category].pats) + category_patterns[category].rest)

PatternScoresAre(test_texts) ==
    \A c \in KnownCategories :
        /\ last.result.all_scores[c].pattern_score = PatternFraction(test_texts, c)
        /\ InUnit(last.result.all_scores[c].pattern_score)

\* C23: pattern score.  In every V3 classification the pattern sub-score of a
\* category is the number of the category's patterns that match at least one
\* non-empty text variant, each pattern counted once, divided by the number
\* of the category's patterns; it lies in [0,1] and is 0 for a category
\* without patterns.
C23_PatternFraction ==
    (Classified /\ Self.kind = "V3") => PatternScoresAre(TestTexts(TextVariants))

C23_Witness ==
    /\ Classified
    /\ Self.kind = "V3"
    /\ last.text = ZuoYeWenJian
    /\ "data" \in KnownCategories
    /\ last.result.all_scores["data"].pattern_score = Rat(2, 7)
    /\ \E c \in KnownCategories :
          c \notin DOMAIN category_patterns
          /\ last.result.all_scores[c].pattern_score = Zero

\* ------------------------------------------------------------------ C24
SimilarityCall == last.op = "similarity"

\* C24: similarity without a centroid or a text.  Every call of
\* calculate_similarity_score for a category that has no centroid vector (no
\* vectorizer was built, or the category has no non-empty training text), or
\* on text variants whose combined text is empty, returns exactly 0 and does
\* not get to the vectorizer.
C24_NoCentroidNoText ==
    (SimilarityCall /\ (\/ ~Self.vectorizer.built
                        \/ last.category \notin DOMAIN Self.category_vectors
                        \/ CombinedText(TextVariants) = <<>>)) =>
        /\ last.result = Zero
        /\ ~last.transformed

C24_Witness ==
    /\ SimilarityCall
    /\ Self.vectorizer.built
    /\ last.category \in CategorySet(Self)
    /\ last.category \notin DOMAIN Self.category_vectors
    /\ last.text = SheBei
    /\ last.result = Zero
    /\ ~last.transformed

\* ------------------------------------------------------------------ C25
\* the weights of the reserved, keyword, pattern and similarity sub-scores,
\* in hundredths
ConvexWeights == <<40, 25, 20, 15>>

\* the raw combined score of the sub-scores s
RawCombined(s) ==
    RatAdd(RatAdd(RatMul(s.reserved_score, Rat(ConvexWeights[1], 100)),
                  RatMul(s.keyword_score, Rat(ConvexWeights[2], 100))),
           RatAdd(RatMul(s.pattern_score, Rat(ConvexWeights[3], 100)),
                  RatMul(s.similarity_score, Rat(ConvexWeights[4], 100))))

SubScoresInUnit(s) ==
    /\ InUnit(s.reserved_score)
    /\ InUnit(s.keyword_score)
    /\ InUnit(s.pattern_score)
    /\ InUnit(s.similarity_score)

CombinedAsWeighted(text_variants) ==
    \A c \in KnownCategories :
        /\ last.result.all_scores[c].total_score =
              apply_exclusion_rules(text_variants, c,
                                    RawCombined(last.result.all_scores[c]))
        /\ SubScoresInUnit(last.result.all_scores[c]) =>
              InUnit(RawCombined(last.result.all_scores[c]))

\* C25: convex combination.  In every V3 classification the score the rule
\* layer is given for a category is reserved*0.40 + keyword*0.25 +
\* pattern*0.20 + similarity*0.15; the weights sum to 1 and decrease strictly
\* in that order; and when the four sub-scores lie in [0,1] so does that raw
\* combined score.
C25_ConvexCombination ==
    /\ ConvexWeights[1] + ConvexWeights[2] + ConvexWeights[3] + ConvexWeights[4] = 100
    /\ \A k \in 1..3 : ConvexWeights[k] > ConvexWeights[k + 1]
    /\ (Classified /\ Self.kind = "V3") => CombinedAsWeighted(TextVariants)

C25_Witness ==
    /\ Classified
    /\ Self.kind = "V3"
    /\ \E c \in KnownCategories :
          /\ SubScoresInUnit(last.result.all_scores[c])
          /\ RatLess(Zero, last.result.all_scores[c].reserved_score)
          /\ RatLess(Zero, last.result.all_scores[c].keyword_score)
          /\ RatLess(Zero, last.result.all_scores[c].pattern_score)
          /\ RatLess(Zero, last.result.all_scores[c].similarity_score)
          /\ RatLess(RawCombined(last.result.all_scores[c]), One)
          /\ last.result.all_scores[c].total_score =
                apply_exclusion_rules(TextVariants, c,
                                      RawCombined(last.result.all_scores[c]))

\* ------------------------------------------------------------------ C26
\* C26: no retry.  Once a load of the training data has failed on a
\* TextClassifier, no later call on it attempts a load or a training again.
C26_NoRetry == [][trainer.failures > 0 => trainer'.attempts = trainer.attempts]_vars

\* ------------------------------------------------------------------ C27
\* C27: order and uniqueness of reserved_words.  In every segmentation
\* reserved_words lists its phrases in non-increasing character length, and
\* no phrase twice, however often the phrase occurs in the text.
C27_OrderedAndUnique ==
    last.op = "segment" =>
        /\ \A k \in 1..(Len(last.result.reserved_words) - 1) :
              PyLen(last.result.reserved_words[k])
                  >= PyLen(last.result.reserved_words[k + 1])
        /\ \A j, k \in 1..Len(last.result.reserved_words) :
              last.result.reserved_words[j] = last.result.reserved_words[k] => j = k

C27_Witness ==
    /\ last.op = "segment"
    /\ last.text = RepeatInput
    /\ Cardinality({i \in 1..Len(last.text) : MatchAt(last.text, FangHuoQiang, i)}) = 2
    /\ last.result.reserved_words = <<FangHuoQiangSheBei, FangHuoQiang>>

\* ------------------------------------------------------------------ C28
\* C28: the embedding store stays aligned with the training data.  Whenever
\* the last build_embeddings call on the system succeeded, processed_texts,
\* categories and asset_names have the length of the training data, which is
\* also the row count of the TF-IDF matrices, and asset_names are the names of
\* the training rows, each once.
C28_StoreAligned ==
    (embed.constructed /\ embed.built = "ok") =>
        /\ Len(embed.processed_texts) = Len(EmbedCsv)
        /\ Len(embed.categories) = Len(EmbedCsv)
        /\ Len(embed.asset_names) = Len(EmbedCsv)
        /\ embed.matrix_rows = Len(EmbedCsv)
        /\ embed.asset_names = [k \in 1..Len(EmbedCsv) |-> EmbedCsv[k].asset_name]

\* ------------------------------------------------------------------ C29
\* C29: ConfigManager updates touch only the named word.  After any sequence
\* of add_reserved_word and remove_reserved_word calls the file holds, and
\* load_reserved_words returns, the mapping stored at first with exactly the
\* updates of the calls applied.
C29_OnlyNamedWordTouched ==
    config.opened => load_reserved_words(config.file, TRUE) = config.asked

\* the members of an ensemble call that count under weighted voting
EnsembleCall == last # None /\ last.op = "ensemble"

EnsembleResults == last.result.individual_results

Voters ==
    {k \in 1..3 : /\ EnsembleResults[k].prediction # "None"
                  /\ RatLess(Zero, EnsembleResults[k].confidence)}

VoteOf(k, category) ==
    IF k \in Voters /\ EnsembleResults[k].prediction = category
    THEN RatMul(EnsembleResults[k].weight, EnsembleResults[k].confidence)
    ELSE Zero

SummedVote(category) ==
    RatAdd(VoteOf(1, category), RatAdd(VoteOf(2, category), VoteOf(3, category)))

\* C30: ensemble fault isolation.  Every classify_with_ensemble call returns a
\* result; a member that raised or had no result is recorded with no
\* prediction, confidence 0 and weight 0 and adds nothing to any category's
\* sum; under weighted voting the final prediction is "未知" when no member
\* produced a prediction with positive confidence, and otherwise a category
\* some such member predicted whose summed weight x confidence is the
\* greatest; confidence_score lies in [0,1].
C30_EnsembleFaultIsolation ==
    EnsembleCall =>
        /\ DOMAIN last.result =
               {"final_prediction", "individual_results", "confidence_score"}
        /\ \A k \in 1..3 :
               EnsembleResults[k].prediction = "None" =>
                   /\ EnsembleResults[k] = NoVote
                   /\ \A c \in EnsembleCategories : VoteOf(k, c) = Zero
        /\ InUnit(last.result.confidence_score)
        /\ last.weighted =>
               IF Voters = {} THEN last.result.final_prediction = Unknown
               ELSE /\ \E k \in Voters :
                          EnsembleResults[k].prediction = last.result.final_prediction
                    /\ \A c \in EnsembleCategories :
                          RatLeq(SummedVote(c),
                                 SummedVote(last.result.final_prediction))

\* A weighted vote in which the first member failed, the other two disagreed
\* and the heavier sum won with a confidence strictly inside (0,1).
C30_Witness ==
    /\ EnsembleCall
    /\ last.weighted
    /\ EnsembleResults[1] = NoVote
    /\ Voters = {2, 3}
    /\ EnsembleResults[2].prediction # EnsembleResults[3].prediction
    /\ last.result.final_prediction = EnsembleResults[3].prediction
    /\ RatLess(SummedVote(EnsembleResults[2].prediction),
               SummedVote(EnsembleResults[3].prediction))
    /\ RatLess(Zero, last.result.confidence_score)
    /\ RatLess(last.result.confidence_score, One)

====
